---- MODULE Spec2Model ----
(***************************************************************************)
(* Project discovery and management (server/projects.js): manual project   *)
(* registration under PROJECT_BASE_DIR and session listing from the JSONL  *)
(* event logs.                                                             *)
(*                                                                         *)
(* Strings are sequences of one-character strings, so that startsWith,     *)
(* includes, trim and the functions of node's `path` module (POSIX         *)
(* flavour, process.platform # 'win32') are computed character by          *)
(* character as the runtime computes them.                                 *)
(***************************************************************************)
EXTENDS Integers, Sequences, FiniteSets, TLC

(***************************************************************************)
(* Bounds of the model                                                     *)
(***************************************************************************)
MaxNameLen == 4
MaxSuffixLen == 4
MaxFiles == 4
MaxEntries == 2
MaxPage == 2
MaxRun == 5
MaxDirs == 6
MaxFailing == 2
MaxImages == 1
MaxStdoutLines == 2
MaxErrors == 1
MaxMergeFiles == 2
MaxSummaryLines == 3

(***************************************************************************)
(* Strings                                                                 *)
(***************************************************************************)
StringsUpTo(A, n) == UNION {[1..k -> A] : k \in 0..n}

startsWith(s, p) == Len(p) <= Len(s) /\ SubSeq(s, 1, Len(p)) = p

includes(s, p) == \E i \in 0..(Len(s) - Len(p)) : SubSeq(s, i + 1, i + Len(p)) = p

isWhitespace(c) == c = " "

RECURSIVE trimStart(_)
trimStart(s) ==
  IF s # <<>> /\ isWhitespace(Head(s)) THEN trimStart(Tail(s)) ELSE s

RECURSIVE trimEnd(_)
trimEnd(s) ==
  IF s # <<>> /\ isWhitespace(s[Len(s)]) THEN trimEnd(SubSeq(s, 1, Len(s) - 1)) ELSE s

trim(s) == trimEnd(trimStart(s))

\* String.prototype.replace(/\//g, '-')
replaceSlashes(s) == [i \in 1..Len(s) |-> IF s[i] = "/" THEN "-" ELSE s[i]]

\* String.prototype.replace(/-/g, '/')
replaceDashes(s) == [i \in 1..Len(s) |-> IF s[i] = "-" THEN "/" ELSE s[i]]

(***************************************************************************)
(* node path (posix)                                                       *)
(***************************************************************************)
sep == <<"/">>

isAbsolute(p) == Len(p) > 0 /\ p[1] = "/"

\* the segments between slashes, empty ones included
RECURSIVE splitFrom(_, _, _)
splitFrom(p, i, cur) ==
  IF i > Len(p) THEN <<cur>>
  ELSE IF p[i] = "/" THEN <<cur>> \o splitFrom(p, i + 1, <<>>)
  ELSE splitFrom(p, i + 1, Append(cur, p[i]))

split(p) == splitFrom(p, 1, <<>>)

RECURSIVE join(_)
join(segs) ==
  IF segs = <<>> THEN <<>>
  ELSE IF Len(segs) = 1 THEN segs[1]
  ELSE segs[1] \o sep \o join(Tail(segs))

DotDot == <<".", ".">>
Dot == <<".">>

\* normalizeString: drops empty and `.` segments, resolves `..`
RECURSIVE normalizeSegs(_, _, _)
normalizeSegs(segs, res, allowAboveRoot) ==
  IF segs = <<>> THEN res
  ELSE LET s == Head(segs) IN
    IF s = <<>> \/ s = Dot THEN normalizeSegs(Tail(segs), res, allowAboveRoot)
    ELSE IF s = DotDot THEN
      IF res # <<>> /\ res[Len(res)] # DotDot
        THEN normalizeSegs(Tail(segs), SubSeq(res, 1, Len(res) - 1), allowAboveRoot)
      ELSE IF allowAboveRoot
        THEN normalizeSegs(Tail(segs), Append(res, DotDot), allowAboveRoot)
      ELSE normalizeSegs(Tail(segs), res, allowAboveRoot)
    ELSE normalizeSegs(Tail(segs), Append(res, s), allowAboveRoot)

normalizeString(p, allowAboveRoot) == join(normalizeSegs(split(p), <<>>, allowAboveRoot))

normalize(p) ==
  IF Len(p) = 0 THEN Dot
  ELSE LET abs == p[1] = "/"
           trailing == p[Len(p)] = "/"
           body == normalizeString(p, ~abs)
       IN IF Len(body) = 0
            THEN (IF abs THEN sep ELSE IF trailing THEN <<".", "/">> ELSE Dot)
            ELSE (IF abs THEN sep ELSE <<>>) \o body \o (IF trailing THEN sep ELSE <<>>)

RECURSIVE stripTrailingSlashes(_)
stripTrailingSlashes(p) ==
  IF p # <<>> /\ p[Len(p)] = "/" THEN stripTrailingSlashes(SubSeq(p, 1, Len(p) - 1)) ELSE p

\* the greatest index holding a slash, 0 when there is none
lastSlash(p) ==
  LET S == {i \in 1..Len(p) : p[i] = "/"} IN
  IF S = {} THEN 0 ELSE CHOOSE i \in S : \A j \in S : j <= i

basename(p) ==
  LET t == stripTrailingSlashes(p) IN SubSeq(t, lastSlash(t) + 1, Len(t))

\* the scan of dirname runs over the indices after the first character only
dirname(p) ==
  IF Len(p) = 0 THEN Dot
  ELSE LET hasRoot == p[1] = "/"
           NonSlash == {i \in 2..Len(p) : p[i] # "/"}
           lastChar == IF NonSlash = {} THEN 0 ELSE CHOOSE i \in NonSlash : \A j \in NonSlash : j <= i
           Before == {i \in 2..Len(p) : p[i] = "/" /\ i < lastChar}
           end == IF Before = {} THEN 0 ELSE CHOOSE i \in Before : \A j \in Before : j <= i
       IN IF end = 0 THEN (IF hasRoot THEN sep ELSE Dot)
          ELSE IF hasRoot /\ end = 2 THEN <<"/", "/">>
          ELSE SubSeq(p, 1, end - 1)

\* path.parse(p).root
parseRoot(p) == IF isAbsolute(p) THEN sep ELSE <<>>

\* process.cwd(), used by path.resolve for relative operands only
Cwd == sep

\* path.resolve(a, b): right to left until an absolute operand, empty operands skipped
resolve(a, b) ==
  LET joined == IF isAbsolute(b) THEN b
                ELSE IF isAbsolute(a) THEN a \o sep \o b
                ELSE Cwd \o sep \o a \o sep \o b
      body == normalizeString(joined, FALSE)
  IN sep \o body

(***************************************************************************)
(* utils/platform.js                                                       *)
(***************************************************************************)
P_etc == <<"/", "e", "t", "c">>
P_usr == <<"/", "u", "s", "r">>
P_var == <<"/", "v", "a", "r">>
P_sys == <<"/", "s", "y", "s">>
P_proc == <<"/", "p", "r", "o", "c">>
P_boot == <<"/", "b", "o", "o", "t">>
P_bin == <<"/", "b", "i", "n">>
P_sbin == <<"/", "s", "b", "i", "n">>
P_root == <<"/", "r", "o", "o", "t">>

getDangerousSystemPaths ==
  {P_etc, P_usr, P_var, P_sys, P_proc} \cup {P_boot, P_bin, P_sbin, P_root}

isSafeProjectPathExact(absolutePath) ==
  \A dangerousPath \in getDangerousSystemPaths : absolutePath # dangerousPath

isSafeProjectPath(absolutePath) ==
  \A dangerousPath \in getDangerousSystemPaths : ~startsWith(absolutePath, dangerousPath)

isValidPathFormat(pathStr) == startsWith(pathStr, sep)

(***************************************************************************)
(* Results of the validators: a value, or the error that is thrown.  An    *)
(* error is the chain of messages it carries, outermost first: the catch   *)
(* of validatePathChainSecurity builds a new error around the message of   *)
(* the one it caught.                                                      *)
(***************************************************************************)
Ok(v) == [ok |-> TRUE, value |-> v, error |-> <<>>]
Throw(e) == [ok |-> FALSE, value |-> <<>>, error |-> e]

\* os.homedir()
HomeDir == <<"/", "h">>

Letters == {"a", "b", "c", "e", "h", "i", "k", "n", "o", "p", "r", "s", "t", "u", "v", "w", "x", "y"}

\* normalizedBaseDir.match(/^[A-Za-z]:\\?$/)
isDriveRoot(p) ==
  /\ Len(p) \in {2, 3}
  /\ p[1] \in Letters
  /\ p[2] = ":"
  /\ Len(p) = 3 => p[3] = "\\"

validateBaseDir(baseDir) ==
  IF ~isAbsolute(baseDir) THEN Throw(<<"NotAbsolute">>)
  ELSE IF ~isValidPathFormat(baseDir) THEN Throw(<<"NotAbsolute">>)
  ELSE LET normalizedBaseDir == normalize(baseDir) IN
    IF ~isSafeProjectPath(normalizedBaseDir) THEN Throw(<<"SystemDirectory">>)
    ELSE IF normalizedBaseDir = HomeDir THEN Throw(<<"HomeDirectory">>)
    ELSE IF normalizedBaseDir = sep \/ isDriveRoot(normalizedBaseDir) THEN Throw(<<"RootDirectory">>)
    ELSE Ok(normalizedBaseDir)

DefaultBaseDir == <<"/", "w", "o", "r", "k", "s", "p", "a", "c", "e">>

\* process.env.PROJECT_BASE_DIR || '/workspace': an unset and an empty variable are both <<>>
currentEnvValue(envValue) == IF envValue = <<>> THEN DefaultBaseDir ELSE envValue

\* the cache is filled on success only; value.cache is the cache after the call
getValidatedBaseDirCaching(envValue, cache) ==
  LET cur == currentEnvValue(envValue)
      v == validateBaseDir(cur)
  IN [ok |-> v.ok, value |-> v.value, error |-> v.error,
      cache |-> (cur :> v.value) @@ cache]

getValidatedBaseDir(envValue, cache) ==
  LET cur == currentEnvValue(envValue) IN
  IF cur \in DOMAIN cache
    THEN [ok |-> TRUE, value |-> cache[cur], error |-> <<>>, cache |-> cache]
    ELSE LET v == validateBaseDir(cur) IN
      IF v.ok
        THEN [ok |-> TRUE, value |-> v.value, error |-> <<>>, cache |-> (cur :> v.value) @@ cache]
        ELSE [ok |-> FALSE, value |-> <<>>, error |-> v.error, cache |-> cache]

validateProjectInputLax(projectPath) ==
  LET trimmedPath == trim(projectPath)
      inputName == basename(trimmedPath)
  IN IF inputName = <<>> \/ inputName = Dot \/ inputName = DotDot
       THEN Throw(<<"InvalidName">>)
     ELSE IF trimmedPath # normalize(trimmedPath) THEN Throw(<<"TraversalAttempt">>)
     ELSE Ok(inputName)

validateProjectInputKeepsPath(projectPath) ==
  LET trimmedPath == trim(projectPath)
      inputName == basename(trimmedPath)
  IN IF inputName = <<>> \/ inputName = Dot \/ inputName = DotDot
       THEN Throw(<<"InvalidName">>)
     ELSE LET normalizedPath == normalize(trimmedPath) IN
       IF \/ includes(normalizedPath, DotDot)
          \/ normalizedPath # trimmedPath
          \/ includes(trimmedPath, <<".", ".", "/">>)
          \/ includes(trimmedPath, <<".", ".", "\\">>)
         THEN Throw(<<"TraversalAttempt">>)
         ELSE Ok(trimmedPath)

validateProjectInput(projectPath) ==
  LET trimmedPath == trim(projectPath)
      inputName == basename(trimmedPath)
  IN IF inputName = <<>> \/ inputName = Dot \/ inputName = DotDot
       THEN Throw(<<"InvalidName">>)
     ELSE LET normalizedPath == normalize(trimmedPath) IN
       IF \/ includes(normalizedPath, DotDot)
          \/ normalizedPath # trimmedPath
          \/ includes(trimmedPath, <<".", ".", "/">>)
          \/ includes(trimmedPath, <<".", ".", "\\">>)
         THEN Throw(<<"TraversalAttempt">>)
         ELSE Ok(inputName)

(***************************************************************************)
(* The filesystem under the base directories.  fsys maps every existing    *)
(* path to <<>> for a directory or to the target of a symbolic link; the   *)
(* root `/` always exists.  A fault is the failure code the next call of   *)
(* one fs function (realpath, access, mkdir) returns whatever the tree     *)
(* holds.                                                                  *)
(***************************************************************************)
IsDir == <<>>

NoFault == [op |-> "none", code |-> "none"]

child(dir, name) == IF dir = sep THEN sep \o name ELSE dir \o sep \o name

\* SYMLOOP_MAX of the host: realpath gives up with ELOOP after that many links
SymloopMax == 8

RECURSIVE realpathWalk(_, _, _, _)
realpathWalk(fsys, cur, segs, hops) ==
  IF segs = <<>> THEN [ok |-> TRUE, value |-> cur, code |-> "none"]
  ELSE LET s == Head(segs) IN
    IF s = <<>> \/ s = Dot THEN realpathWalk(fsys, cur, Tail(segs), hops)
    ELSE IF s = DotDot THEN realpathWalk(fsys, dirname(cur), Tail(segs), hops)
    ELSE LET next == child(cur, s) IN
      IF next \notin DOMAIN fsys THEN [ok |-> FALSE, value |-> <<>>, code |-> "ENOENT"]
      ELSE IF fsys[next] = IsDir THEN realpathWalk(fsys, next, Tail(segs), hops)
      ELSE IF hops = 0 THEN [ok |-> FALSE, value |-> <<>>, code |-> "ELOOP"]
      ELSE realpathWalk(fsys, sep, split(fsys[next]) \o Tail(segs), hops - 1)

\* fs.realpath
realpath(fsys, p, fault) ==
  IF fault.op = "realpath" THEN [ok |-> FALSE, value |-> <<>>, code |-> fault.code]
  ELSE realpathWalk(fsys, sep, split(p), SymloopMax)

\* fs.access: follows links, so a dangling link is ENOENT
access(fsys, p, fault) ==
  IF fault.op = "access" THEN [ok |-> FALSE, value |-> <<>>, code |-> fault.code]
  ELSE realpathWalk(fsys, sep, split(p), SymloopMax)

\* p and its ancestors below `/`, nearest first
RECURSIVE ancestors(_)
ancestors(p) == IF p = sep \/ p = Dot \/ p = <<>> THEN <<>> ELSE <<p>> \o ancestors(dirname(p))

\* a & ~b over the n low bits
RECURSIVE andNot(_, _, _)
andNot(a, b, n) ==
  IF n = 0 THEN 0
  ELSE (IF a % 2 = 1 /\ b % 2 = 0 THEN 1 ELSE 0) + 2 * andNot(a \div 2, b \div 2, n - 1)

\* 0o777, the mode of fs.mkdir when the options name none
DefaultDirMode == 511
ModeBits == 9

\* the umask of a shell started with the usual defaults, 0o022
TypicalUmask == 18

NoMode == <<>>

\* the options ensureDirectoryExists passes to fs.mkdir
mkdirOptions == [recursive |-> TRUE, mode |-> NoMode]

\* the mode of a directory fs.mkdir makes: the mode asked for, or the
\* default, without the bits of the umask
createdMode(options, mask) ==
  andNot(IF options.mode = NoMode THEN DefaultDirMode ELSE options.mode[1], mask, ModeBits)

\* fs.mkdir(p, {recursive: true}): EEXIST when p is there but is no directory
\* (a dangling link); value is the sequence of directories made, p last
mkdir(fsys, p, fault) ==
  IF fault.op = "mkdir" THEN [ok |-> FALSE, value |-> <<>>, code |-> fault.code]
  ELSE IF p \in DOMAIN fsys /\ fsys[p] # IsDir THEN [ok |-> FALSE, value |-> <<>>, code |-> "EEXIST"]
  ELSE LET anc == ancestors(p)
           missing == SelectSeq(anc, LAMBDA q : q \notin DOMAIN fsys)
       IN [ok |-> TRUE, code |-> "none",
           value |-> [i \in 1..Len(missing) |-> missing[Len(missing) + 1 - i]]]

Range(f) == {f[i] : i \in DOMAIN f}

(***************************************************************************)
(* ensureDirectoryExists.  value: directoryCreated and the directories     *)
(* that mkdir made.                                                        *)
(***************************************************************************)
\* the classification without the four later branches
mkdirErrorUnclassified(code) ==
  IF code = "EACCES" THEN <<"PermissionDenied">>
  ELSE IF code = "ENOTDIR" THEN <<"NotADirectory">>
  ELSE <<"CreateFailed", code>>

mkdirError(code) ==
  IF code = "EACCES" THEN <<"PermissionDenied">>
  ELSE IF code = "ENOTDIR" THEN <<"NotADirectory">>
  ELSE IF code = "ENOSPC" THEN <<"OutOfSpace">>
  ELSE IF code = "EROFS" THEN <<"ReadOnlyFilesystem">>
  ELSE IF code = "EMFILE" \/ code = "ENFILE" THEN <<"ResourceExhausted">>
  ELSE IF code = "ENAMETOOLONG" THEN <<"NameTooLong">>
  ELSE <<"CreateFailed", code>>

ensureDirectoryExists(absolutePath, fsys, fault) ==
  LET a == access(fsys, absolutePath, fault) IN
  IF a.ok THEN Ok([directoryCreated |-> FALSE, made |-> <<>>])
  ELSE IF a.code = "ENOENT" THEN
    LET m == mkdir(fsys, absolutePath, fault) IN
    IF m.ok THEN Ok([directoryCreated |-> TRUE, made |-> m.value])
    ELSE Throw(mkdirError(m.code))
  ELSE IF a.code = "EACCES" THEN Throw(<<"AccessDenied">>)
  ELSE Throw(<<"AccessFailed", a.code>>)

createProjectDirectory(absolutePath, fsys, fault) ==
  ensureDirectoryExists(absolutePath, fsys, fault)

(***************************************************************************)
(* validatePathChainSecurity                                               *)
(***************************************************************************)
maxIterations == 20

\* the catch of the loop body: ENOENT is swallowed (FALSE), everything else
\* thrown inside the try, the checks of the body included, leaves wrapped
\* the error leaves the catch as it came
catchRethrowsUnwrapped(code, message) == message

catchRethrows(code, message) == <<"SecurityCheckFailed">> \o message

withinBase(normalizedReal, normalizedBase) ==
  startsWith(normalizedReal, normalizedBase \o sep) \/ normalizedReal = normalizedBase

RECURSIVE pathChainLoop(_, _, _, _, _, _, _)
pathChainLoop(currentPath, normalizedBase, checkedPaths, resolvedPaths, iterations, fsys, fault) ==
  IF currentPath = normalizedBase \/ currentPath = sep \/ currentPath = parseRoot(currentPath)
    THEN Ok(iterations)
  ELSE IF iterations + 1 > maxIterations THEN Throw(<<"CyclicSymlink">>)
  ELSE IF currentPath \in checkedPaths THEN Throw(<<"CyclicSymlink">>)
  ELSE LET r == realpath(fsys, currentPath, fault)
           normalizedReal == normalize(r.value)
       IN IF r.ok THEN
            IF ~withinBase(normalizedReal, normalizedBase)
              THEN Throw(catchRethrows("none", <<"SymlinkEscape">>))
            ELSE IF normalizedReal \in resolvedPaths
              THEN Throw(catchRethrows("none", <<"CyclicSymlink">>))
            ELSE pathChainLoop(dirname(normalizedReal), normalizedBase,
                               checkedPaths \cup {currentPath},
                               resolvedPaths \cup {normalizedReal},
                               iterations + 1, fsys, fault)
          ELSE IF r.code = "ENOENT"
            THEN pathChainLoop(dirname(currentPath), normalizedBase,
                               checkedPaths \cup {currentPath}, resolvedPaths,
                               iterations + 1, fsys, fault)
          ELSE Throw(catchRethrows(r.code, <<r.code>>))

validatePathChainSecurity(targetPath, baseDir, fsys, fault) ==
  pathChainLoop(normalize(targetPath), normalize(baseDir), {}, {}, 0, fsys, fault)

\* the paths the message of the boundary check's error interpolates
securityViolationMentions(absolutePath, baseDir) == {baseDir}

validateProjectSecurity(absolutePath, baseDir, fsys, fault) ==
  LET normalizedAbsolute == normalize(absolutePath)
      normalizedBase == normalize(baseDir)
  IN IF ~withinBase(normalizedAbsolute, normalizedBase)
       THEN Throw(<<"SecurityViolation">>)
       ELSE validatePathChainSecurity(absolutePath, normalizedBase, fsys, fault)

(***************************************************************************)
(* The config document: identifier -> entry.  An absent key of an entry    *)
(* is <<>> (displayName, originalPath) or FALSE (manuallyAdded).  A null,  *)
(* undefined or empty display name is <<>>.                                *)
(***************************************************************************)
NoName == <<>>

projectIdentifierOf(absolutePath) == replaceSlashes(absolutePath)

updateProjectConfigOverwrite(absolutePath, displayName, config) ==
  LET projectIdentifier == projectIdentifierOf(absolutePath) IN
  Ok([identifier |-> projectIdentifier,
      config |-> (projectIdentifier :>
                    [manuallyAdded |-> TRUE, originalPath |-> absolutePath,
                     displayName |-> displayName]) @@ config])

EmptyMap == [x \in {} |-> <<>>]

\* the document as read: the empty mapping when reading or parsing it fails
loadProjectConfig(config, fault) ==
  IF fault.op = "readFile" THEN EmptyMap ELSE config

\* the registration keyed by the path itself
updateProjectConfigKeyedByPath(absolutePath, displayName, config) ==
  IF absolutePath \in DOMAIN config THEN Throw(<<"AlreadyRegistered">>)
  ELSE Ok([identifier |-> absolutePath,
           config |-> (absolutePath :>
                         [manuallyAdded |-> TRUE, originalPath |-> absolutePath,
                          displayName |-> displayName]) @@ config])

\* the check, the new entry, saveProjectConfig; config is what loadProjectConfig returned
updateProjectConfig(absolutePath, displayName, config) ==
  LET projectIdentifier == projectIdentifierOf(absolutePath) IN
  IF projectIdentifier \in DOMAIN config THEN Throw(<<"AlreadyRegistered">>)
  ELSE Ok([identifier |-> projectIdentifier,
           config |-> (projectIdentifier :>
                         [manuallyAdded |-> TRUE, originalPath |-> absolutePath,
                          displayName |-> displayName]) @@ config])

(***************************************************************************)
(* addProjectManually: the outcome of one call and the state it leaves.    *)
(*   path       absolutePath, <<>> when the call failed before resolving   *)
(*   name       the identifier returned, <<>> on failure                   *)
(*   made       the directories created, in order                          *)
(*   saved      saveProjectConfig was called                               *)
(***************************************************************************)
Outcome0(cache, fsys, config) ==
  [ok |-> FALSE, error |-> <<>>, inputName |-> <<>>, baseDir |-> <<>>, path |-> <<>>,
   name |-> <<>>, directoryCreated |-> FALSE, made |-> <<>>, saved |-> FALSE,
   cache |-> cache, fsys |-> fsys, config |-> config]

Resolved(ok, error, inputName, baseDir, path, cache) ==
  [ok |-> ok, error |-> error, inputName |-> inputName, baseDir |-> baseDir,
   path |-> path, cache |-> cache]

resolveProjectPathRootFirst(projectPath, envValue, cache) ==
  LET b == getValidatedBaseDir(envValue, cache) IN
  IF ~b.ok THEN Resolved(FALSE, b.error, <<>>, <<>>, <<>>, b.cache)
  ELSE LET i == validateProjectInput(projectPath) IN
    IF ~i.ok THEN Resolved(FALSE, i.error, <<>>, b.value, <<>>, b.cache)
    ELSE Resolved(TRUE, <<>>, i.value, b.value, resolve(b.value, i.value), b.cache)

\* steps 1 and 2 of addProjectManually: the name, the base directory, the absolute path
resolveProjectPath(projectPath, envValue, cache) ==
  LET i == validateProjectInput(projectPath) IN
  IF ~i.ok THEN Resolved(FALSE, i.error, <<>>, <<>>, <<>>, cache)
  ELSE LET b == getValidatedBaseDir(envValue, cache) IN
    IF ~b.ok THEN Resolved(FALSE, b.error, i.value, <<>>, <<>>, b.cache)
    ELSE Resolved(TRUE, <<>>, i.value, b.value, resolve(b.value, i.value), b.cache)

\* what the call leaves when it ends after steps 1 and 2
Outcome1(p, fsys, config) ==
  [Outcome0(p.cache, fsys, config) EXCEPT
     !.inputName = p.inputName, !.baseDir = p.baseDir, !.path = p.path]

Failed(o, error) == [o EXCEPT !.error = error]

\* steps 5 and 6: u is what updateProjectConfig returned or threw
registerProject(o, u) ==
  IF ~u.ok THEN Failed(o, u.error)
  ELSE [o EXCEPT !.ok = TRUE, !.name = u.value.identifier, !.saved = TRUE,
                 !.config = u.value.config]

\* step 4 done: d is what createProjectDirectory returned or threw
afterCreate(o, p, d, displayName, config) ==
  IF ~d.ok THEN Failed(o, d.error)
  ELSE registerProject([o EXCEPT !.directoryCreated = d.value.directoryCreated,
                                 !.made = d.value.made,
                                 !.fsys = [q \in Range(d.value.made) |-> IsDir] @@ o.fsys],
                       updateProjectConfig(p.path, displayName, config))

\* step 3 done: v is what validateProjectSecurity returned or threw
afterSecurity(o, p, v, displayName, fsys, config, fault) ==
  IF ~v.ok THEN Failed(o, v.error)
  ELSE afterCreate(o, p, createProjectDirectory(p.path, fsys, fault), displayName,
                   loadProjectConfig(config, fault))

\* steps 1 and 2 done: p is the resolved path or the error thrown
afterResolve(p, displayName, fsys, config, fault) ==
  IF ~p.ok THEN Failed(Outcome1(p, fsys, config), p.error)
  ELSE afterSecurity(Outcome1(p, fsys, config), p,
                     validateProjectSecurity(p.path, p.baseDir, fsys, fault),
                     displayName, fsys, config, fault)

addProjectManually(projectPath, displayName, envValue, cache, fsys, config, fault) ==
  afterResolve(resolveProjectPath(projectPath, envValue, cache), displayName, fsys, config, fault)

(***************************************************************************)
(* The event logs.  A line of a .jsonl file is malformed (JSON.parse       *)
(* throws) or an entry; an absent field of an entry is <<>> (sessionId,    *)
(* summary, content, cwd), "" (type, message.role) or 0 (timestamp).       *)
(* Timestamps are the instants new Date(entry.timestamp) yields.  A blank  *)
(* line (line.trim() is empty) is skipped by every reader.                 *)
(***************************************************************************)
Entry(sessionId, timestamp, type, summary, role, content, cwd) ==
  [malformed |-> FALSE, blank |-> FALSE, sessionId |-> sessionId, timestamp |-> timestamp, type |-> type,
   summary |-> summary, role |-> role, content |-> content, isString |-> TRUE, cwd |-> cwd]

Malformed == [Entry(<<>>, 0, "", <<>>, "", <<>>, <<>>) EXCEPT !.malformed = TRUE]

\* an empty or whitespace-only line: no reader parses it
Blank == [Malformed EXCEPT !.blank = TRUE]

\* new Date() while a log is parsed: later than every timestamp of the logs
Now == 9

NewSession == <<"N", "e", "w", " ", "S", "e", "s", "s", "i", "o", "n">>
CommandTag == <<"<", "c", "o", "m", "m", "a", "n", "d", "-", "n", "a", "m", "e", ">">>
SummaryLimit == 50
Ellipsis == <<".", ".", ".">>

\* Array.prototype.sort with the comparator b.key - a.key: stable, descending.
\* keys[k] is the key of seq[k]; the indices are sorted, then the elements taken.
RECURSIVE insertDesc(_, _, _)
insertDesc(sorted, i, keys) ==
  IF sorted = <<>> THEN <<i>>
  ELSE IF keys[Head(sorted)] >= keys[i] THEN <<Head(sorted)>> \o insertDesc(Tail(sorted), i, keys)
  ELSE <<i>> \o sorted

RECURSIVE sortedIndices(_, _)
sortedIndices(n, keys) ==
  IF n = 0 THEN <<>> ELSE insertDesc(sortedIndices(n - 1, keys), n, keys)

sortDesc(seq, keys) ==
  LET idx == sortedIndices(Len(seq), keys) IN [k \in 1..Len(seq) |-> seq[idx[k]]]

byLastActivity(sessions) == sortDesc(sessions, [k \in 1..Len(sessions) |-> sessions[k].lastActivity])

byMtime(files) == sortDesc(files, [k \in 1..Len(files) |-> files[k].mtime])

\* the index of the record of id in a Map kept in insertion order, 0 when absent
indexOfId(sessions, id) ==
  LET S == {k \in 1..Len(sessions) : sessions[k].id = id} IN
  IF S = {} THEN 0 ELSE CHOOSE k \in S : TRUE

\* the summary of the session after one entry
summaryAfter(session, entry) ==
  IF entry.type = "summary" /\ entry.summary # <<>> THEN entry.summary
  ELSE IF /\ entry.role = "user" /\ entry.content # <<>>
          /\ session.summary = NewSession
          /\ entry.isString /\ Len(entry.content) > 0
          /\ ~startsWith(entry.content, CommandTag)
    THEN IF Len(entry.content) > SummaryLimit
           THEN SubSeq(entry.content, 1, SummaryLimit) \o Ellipsis
           ELSE entry.content
  ELSE session.summary

mergeEntryCountingOne(session, entry) ==
  [session EXCEPT
     !.summary = summaryAfter(session, entry),
     !.messageCount = 1,
     !.lastActivity = IF entry.timestamp # 0 THEN entry.timestamp ELSE session.lastActivity]

\* the body of the read loop for one entry with a sessionId
mergeEntry(session, entry) ==
  [session EXCEPT
     !.summary = summaryAfter(session, entry),
     !.messageCount = session.messageCount + 1,
     !.lastActivity = IF entry.timestamp # 0 THEN entry.timestamp ELSE session.lastActivity]

RECURSIVE parseLines(_, _)
parseLines(lines, sessions) ==
  IF lines = <<>> THEN sessions
  ELSE LET entry == Head(lines) IN
    IF entry.malformed \/ entry.sessionId = <<>> THEN parseLines(Tail(lines), sessions)
    ELSE LET k == indexOfId(sessions, entry.sessionId)
             withNew == IF k # 0 THEN sessions
                        ELSE Append(sessions, [id |-> entry.sessionId, summary |-> NewSession,
                                               messageCount |-> 0, lastActivity |-> Now,
                                               cwd |-> entry.cwd])
             j == IF k # 0 THEN k ELSE Len(withNew)
         IN parseLines(Tail(lines), [withNew EXCEPT ![j] = mergeEntry(withNew[j], entry)])

parseJsonlSessions(lines) == byLastActivity(parseLines(lines, <<>>))

\* sessions.forEach: a session whose id is already in allSessions is dropped
\* every record of every file is kept
mergeSessionsKeepingAll(allSessions, sessions) == allSessions \o sessions

RECURSIVE mergeSessions(_, _)
mergeSessions(allSessions, sessions) ==
  IF sessions = <<>> THEN allSessions
  ELSE mergeSessions(
         IF indexOfId(allSessions, Head(sessions).id) = 0
           THEN Append(allSessions, Head(sessions)) ELSE allSessions,
         Tail(sessions))

MAX_RECENT_FILES_TO_PROCESS == 3

Min(a, b) == IF a <= b THEN a ELSE b
Max(a, b) == IF a >= b THEN a ELSE b

earlyExitEither(size, processedCount, fileCount, limit, offset) ==
  \/ size >= (limit + offset) * 2
  \/ processedCount >= Min(MAX_RECENT_FILES_TO_PROCESS, fileCount)

earlyExit(size, processedCount, fileCount, limit, offset) ==
  /\ size >= (limit + offset) * 2
  /\ processedCount >= Min(MAX_RECENT_FILES_TO_PROCESS, fileCount)

\* the loop over the files sorted by mtime; scanned counts the files parsed
RECURSIVE scanFiles(_, _, _, _, _, _)
scanFiles(filesWithStats, k, allSessions, limit, offset, processedCount) ==
  IF k > Len(filesWithStats) THEN [allSessions |-> allSessions, scanned |-> processedCount]
  ELSE LET merged == mergeSessions(allSessions, parseJsonlSessions(filesWithStats[k].lines)) IN
    IF earlyExit(Len(merged), processedCount + 1, Len(filesWithStats), limit, offset)
      THEN [allSessions |-> merged, scanned |-> processedCount + 1]
      ELSE scanFiles(filesWithStats, k + 1, merged, limit, offset, processedCount + 1)

sliceOneShort(seq, from, to) == SubSeq(seq, from + 1, Min(to, Len(seq)) - 1)

\* a relative index of Array.prototype.slice: a negative one counts from the end
relativeIndex(i, len) == IF i < 0 THEN Max(len + i, 0) ELSE Min(i, len)

\* Array.prototype.slice(from, to)
slice(seq, from, to) ==
  LET k == relativeIndex(from, Len(seq))
      final == relativeIndex(to, Len(seq))
  IN IF k >= final THEN <<>> ELSE SubSeq(seq, k + 1, final)

SessionsResult(sessions, hasMore, total, scanned) ==
  [sessions |-> sessions, hasMore |-> hasMore, total |-> total, scanned |-> scanned]

\* fault: readdir or a stat failed, the catch returns the empty result
getSessions(files, limit, offset, fault) ==
  IF fault = "readdir" THEN SessionsResult(<<>>, FALSE, 0, 0)
  ELSE IF Len(files) = 0 THEN SessionsResult(<<>>, FALSE, 0, 0)
  ELSE IF fault = "stat" THEN SessionsResult(<<>>, FALSE, 0, 0)
  ELSE LET filesWithStats == byMtime(files)
           scan == scanFiles(filesWithStats, 1, <<>>, limit, offset, 0)
           sortedSessions == byLastActivity(scan.allSessions)
           total == Len(sortedSessions)
       IN SessionsResult(slice(sortedSessions, offset, offset + limit),
                         offset + limit < total, total, scan.scanned)

(***************************************************************************)
(* extractProjectDirectory.  cwdCounts is a Map kept in insertion order,   *)
(* latestCwd is <<>> for null.  The files are read in readdir order.       *)
(***************************************************************************)
\* RECENT_CWD_THRESHOLD is 0.25: count >= maxCount * 0.25 is
\* count * 4 >= maxCount
RECENT_CWD_THRESHOLD_INVERSE == 4

indexOfCwd(cwdCounts, cwd) ==
  LET S == {k \in 1..Len(cwdCounts) : cwdCounts[k].cwd = cwd} IN
  IF S = {} THEN 0 ELSE CHOOSE k \in S : TRUE

\* cwdCounts.set(entry.cwd, (cwdCounts.get(entry.cwd) || 0) + 1)
countCwd(cwdCounts, k, cwd) ==
  IF k = 0 THEN Append(cwdCounts, [cwd |-> cwd, count |-> 1])
  ELSE [cwdCounts EXCEPT ![k].count = @ + 1]

\* cwdCounts.get(cwd) || 0
countOf(cwdCounts, k) == IF k = 0 THEN 0 ELSE cwdCounts[k].count

ScanStart == [cwdCounts |-> <<>>, latestTimestamp |-> 0, latestCwd |-> <<>>]

\* one line of a file: malformed lines and entries without cwd are skipped
scanEntry(scan, entry) ==
  IF entry.malformed \/ entry.cwd = <<>> THEN scan
  ELSE [cwdCounts |-> countCwd(scan.cwdCounts, indexOfCwd(scan.cwdCounts, entry.cwd), entry.cwd),
        latestTimestamp |-> IF entry.timestamp > scan.latestTimestamp
                              THEN entry.timestamp ELSE scan.latestTimestamp,
        latestCwd |-> IF entry.timestamp > scan.latestTimestamp
                        THEN entry.cwd ELSE scan.latestCwd]

RECURSIVE scanLines(_, _)
scanLines(lines, scan) ==
  IF lines = <<>> THEN scan ELSE scanLines(Tail(lines), scanEntry(scan, Head(lines)))

RECURSIVE scanJsonlFiles(_, _)
scanJsonlFiles(files, scan) ==
  IF files = <<>> THEN scan
  ELSE scanJsonlFiles(Tail(files), scanLines(Head(files).lines, scan))

\* Math.max(...cwdCounts.values())
maxCountOf(cwdCounts) ==
  CHOOSE m \in {cwdCounts[k].count : k \in 1..Len(cwdCounts)} :
    \A k \in 1..Len(cwdCounts) : cwdCounts[k].count <= m

\* the first key of the Map whose count is maxCount
firstWithCount(cwdCounts, maxCount) ==
  cwdCounts[CHOOSE k \in 1..Len(cwdCounts) :
              /\ cwdCounts[k].count = maxCount
              /\ \A j \in 1..(k - 1) : cwdCounts[j].count # maxCount].cwd

recentOrFrequentStrict(cwdCounts, latestCwd, mostRecentCount, maxCount) ==
  IF mostRecentCount * RECENT_CWD_THRESHOLD_INVERSE > maxCount
    THEN latestCwd
    ELSE firstWithCount(cwdCounts, maxCount)

recentOrFrequent(cwdCounts, latestCwd, mostRecentCount, maxCount) ==
  IF mostRecentCount * RECENT_CWD_THRESHOLD_INVERSE >= maxCount
    THEN latestCwd
    ELSE firstWithCount(cwdCounts, maxCount)

\* if (!extractedPath): the fallback of the branch for several cwd values
orFallback(extractedPath, latestCwd, projectName) ==
  IF extractedPath # <<>> THEN extractedPath
  ELSE IF latestCwd # <<>> THEN latestCwd ELSE replaceDashes(projectName)

bestCwd(scan, projectName) ==
  IF Len(scan.cwdCounts) = 0 THEN replaceDashes(projectName)
  ELSE IF Len(scan.cwdCounts) = 1 THEN scan.cwdCounts[1].cwd
  ELSE orFallback(recentOrFrequent(scan.cwdCounts, scan.latestCwd,
                                   countOf(scan.cwdCounts,
                                           indexOfCwd(scan.cwdCounts, scan.latestCwd)),
                                   maxCountOf(scan.cwdCounts)),
                  scan.latestCwd, projectName)

extractedPathOfUnreadFiles(projectName, files, dirExists, fault) ==
  IF ~dirExists \/ fault \in {"access", "readdir"} THEN replaceDashes(projectName)
  ELSE IF Len(files) = 0 THEN replaceDashes(projectName)
  ELSE bestCwd(scanJsonlFiles(IF fault = "read" THEN Tail(files) ELSE files, ScanStart),
               projectName)

\* the body of the try and its catch: every failure ends in the decoded name
extractedPathOf(projectName, files, dirExists, fault) ==
  IF ~dirExists \/ fault # "none" THEN replaceDashes(projectName)
  ELSE IF Len(files) = 0 THEN replaceDashes(projectName)
  ELSE bestCwd(scanJsonlFiles(files, ScanStart), projectName)

Extracted(value, hit, cache) == [value |-> value, hit |-> hit, cache |-> cache]

cacheSet(cache, projectName, extractedPath) ==
  Extracted(extractedPath, FALSE, (projectName :> extractedPath) @@ cache)

\* fault: "access", "readdir" or "read" fails with a code other than ENOENT
extractProjectDirectory(projectName, files, dirExists, cache, fault) ==
  IF projectName \in DOMAIN cache THEN Extracted(cache[projectName], TRUE, cache)
  ELSE cacheSet(cache, projectName, extractedPathOf(projectName, files, dirExists, fault))

clearProjectDirectoryCache(cache) == [x \in {} |-> <<>>]

(***************************************************************************)
(* getSessionMessages: the entries of one session over all the files in    *)
(* readdir order, sorted by timestamp, and the page counted from the end.  *)
(***************************************************************************)
\* limit = null
NoLimit == -1

\* Array.prototype.sort with the comparator a.key - b.key: stable, ascending
RECURSIVE insertAsc(_, _, _)
insertAsc(sorted, i, keys) ==
  IF sorted = <<>> THEN <<i>>
  ELSE IF keys[Head(sorted)] <= keys[i] THEN <<Head(sorted)>> \o insertAsc(Tail(sorted), i, keys)
  ELSE <<i>> \o sorted

RECURSIVE sortedIndicesAsc(_, _)
sortedIndicesAsc(n, keys) ==
  IF n = 0 THEN <<>> ELSE insertAsc(sortedIndicesAsc(n - 1, keys), n, keys)

byTimestamp(messages) ==
  LET idx == sortedIndicesAsc(Len(messages), [k \in 1..Len(messages) |-> messages[k].timestamp])
  IN [k \in 1..Len(messages) |-> messages[idx[k]]]

\* messages.push(entry) for the entries of the session, file after file
RECURSIVE messagesOf(_, _)
messagesOf(files, sessionId) ==
  IF files = <<>> THEN <<>>
  ELSE SelectSeq(Head(files).lines,
                 LAMBDA entry : ~entry.malformed /\ entry.sessionId = sessionId)
         \o messagesOf(Tail(files), sessionId)

MessagesResult(messages, total, hasMore, paged) ==
  [messages |-> messages, total |-> total, hasMore |-> hasMore, paged |-> paged]

\* startIndex, endIndex, slice, hasMore
pageFromEnd(sortedMessages, limit, offset) ==
  LET total == Len(sortedMessages)
      startIndex == Max(0, total - offset - limit)
      endIndex == total - offset
  IN MessagesResult(slice(sortedMessages, startIndex, endIndex), total, startIndex > 0, TRUE)

\* paged is FALSE when the bare array is returned.  fault: readdir or the
\* read of a file fails, the catch returns the empty result
getSessionMessages(files, dirExists, sessionId, limit, offset, fault) ==
  IF ~dirExists \/ fault # "none" THEN MessagesResult(<<>>, 0, FALSE, limit # NoLimit)
  ELSE IF Len(files) = 0 THEN MessagesResult(<<>>, 0, FALSE, TRUE)
  ELSE LET sortedMessages == byTimestamp(messagesOf(files, sessionId)) IN
    IF limit = NoLimit THEN MessagesResult(sortedMessages, Len(sortedMessages), FALSE, FALSE)
    ELSE pageFromEnd(sortedMessages, limit, offset)

(***************************************************************************)
(* getCursorSessions.  A session directory holds store.db, whose state is  *)
(*   "ok"       the database opens and answers both queries                *)
(*   "missing"  fs.access of store.db fails                                *)
(*   "open"     open() rejects                                             *)
(*   "query"    db.all or db.get rejects                                   *)
(*   "date"     metadata.createdAt is no date: toISOString throws          *)
(* createdAt is the instant of metadata.createdAt, 0 when the key is       *)
(* absent; mtime is stat.mtimeMs, 0 when fs.stat failed.                   *)
(***************************************************************************)
CURSOR_SESSIONS_RETURNED == 5

SessionDir(id, db, createdAt, mtime) ==
  [id |-> id, db |-> db, createdAt |-> createdAt, mtime |-> mtime]

\* metadata.createdAt, else the mtime of store.db, else new Date()
createdAtOf(dir) ==
  IF dir.createdAt # 0 THEN dir.createdAt
  ELSE IF dir.mtime # 0 THEN dir.mtime
  ELSE Now

cursorSessionOf(dir) == [id |-> dir.id, createdAt |-> createdAtOf(dir)]

\* a failure in the directory of one session ends the whole scan
RECURSIVE readSessionDirsAborting(_, _)
readSessionDirsAborting(sessionDirs, sessions) ==
  IF sessionDirs = <<>> THEN sessions
  ELSE IF Head(sessionDirs).db # "ok" THEN sessions
  ELSE readSessionDirsAborting(Tail(sessionDirs),
                               Append(sessions, cursorSessionOf(Head(sessionDirs))))

\* the loop over sessionDirs: the catch of the loop body skips the session
RECURSIVE readSessionDirs(_, _)
readSessionDirs(sessionDirs, sessions) ==
  IF sessionDirs = <<>> THEN sessions
  ELSE readSessionDirs(Tail(sessionDirs),
                       IF Head(sessionDirs).db # "ok" THEN sessions
                       ELSE Append(sessions, cursorSessionOf(Head(sessionDirs))))

byCreatedAt(sessions) ==
  sortDesc(sessions, [k \in 1..Len(sessions) |-> sessions[k].createdAt])

newestFirstUncapped(sessions) == byCreatedAt(sessions)

\* sessions.sort(...); return sessions.slice(0, 5)
newestFirst(sessions) == slice(byCreatedAt(sessions), 0, CURSOR_SESSIONS_RETURNED)

\* the database handles of the loop over sessionDirs: open, the ids of the
\* directories whose handle is open, and peak, the most handles open at one
\* time.  open() gives a handle unless store.db is missing or open rejects;
\* db.close() is awaited after the two queries, so a query that rejects
\* leaves for the catch of the loop body with the handle open
RECURSIVE dbHandles(_, _, _)
dbHandles(sessionDirs, open, peak) ==
  IF sessionDirs = <<>> THEN [open |-> open, peak |-> peak]
  ELSE LET dir == Head(sessionDirs)
           during == IF dir.db \in {"missing", "open"} THEN open ELSE open \cup {dir.id}
       IN dbHandles(Tail(sessionDirs),
                    IF dir.db = "query" THEN during ELSE open,
                    Max(peak, Cardinality(during)))

cursorHandles(sessionDirs, fault) ==
  IF fault # "none" THEN [open |-> {}, peak |-> 0]
  ELSE dbHandles(sessionDirs, {}, 0)

\* fault: "access", the directory of the project is missing or unreadable,
\* or "readdir"
getCursorSessions(sessionDirs, fault) ==
  IF fault # "none" THEN <<>>
  ELSE newestFirst(readSessionDirs(sessionDirs, <<>>))

(***************************************************************************)
(* deleteSession: the files are read in readdir order; the first one that  *)
(* holds an entry of the session is rewritten without its blank lines and  *)
(* without the entries of the session, and the call returns.               *)
(***************************************************************************)
\* A write makes a file the newest of the project.  readdir promises no
\* order and the reader sorts what it lists, so the files are listed oldest
\* first, and the modification times are their ranks: the reader only
\* compares them.
touch(files, k) ==
  LET moved == SubSeq(files, 1, k - 1) \o SubSeq(files, k + 1, Len(files)) \o <<files[k]>>
  IN [j \in 1..Len(files) |-> [moved[j] EXCEPT !.mtime = j]]

\* content.split('\n').filter(line => line.trim())
nonBlankLines(lines) == SelectSeq(lines, LAMBDA line : ~line.blank)

hasSession(lines, sessionId) ==
  \E i \in 1..Len(lines) : ~lines[i].malformed /\ lines[i].sessionId = sessionId

filteredLinesDroppingMalformed(lines, sessionId) ==
  SelectSeq(lines, LAMBDA line : ~line.malformed /\ line.sessionId # sessionId)

\* lines.filter: a line that does not parse is kept
filteredLines(lines, sessionId) ==
  SelectSeq(lines, LAMBDA line : line.malformed \/ line.sessionId # sessionId)

RECURSIVE deleteFromFirst(_, _, _)
deleteFromFirst(files, k, sessionId) ==
  IF k > Len(files) THEN Throw(<<"SessionNotFound">>)
  ELSE IF hasSession(nonBlankLines(files[k].lines), sessionId)
    THEN Ok(touch([files EXCEPT ![k].lines =
                     filteredLines(nonBlankLines(files[k].lines), sessionId)],
                  k))
    ELSE deleteFromFirst(files, k + 1, sessionId)

\* fault: "readdir" fails, or "read", the readFile of the first file, fails
deleteSession(files, dirExists, sessionId, fault) ==
  IF ~dirExists \/ fault = "readdir" THEN Throw(<<"readdir">>)
  ELSE IF Len(files) = 0 THEN Throw(<<"NoSessionFiles">>)
  ELSE IF fault = "read" THEN Throw(<<"readFile">>)
  ELSE deleteFromFirst(files, 1, sessionId)

saveProjectConfigMerging(config, onDisk) == config @@ onDisk

\* fs.writeFile of the whole document: what the file held is gone
saveProjectConfig(config, onDisk) == config

(***************************************************************************)
(* renameProject, isProjectEmpty and deleteProject on the config document  *)
(* and the directory of one project.                                       *)
(***************************************************************************)
deleteKey(config, projectName) == [k \in DOMAIN config \ {projectName} |-> config[k]]

\* load, delete or replace the entry, save
renameProject(projectName, newDisplayName, config) ==
  IF newDisplayName = <<>> \/ trim(newDisplayName) = <<>> THEN deleteKey(config, projectName)
  ELSE (projectName :> [manuallyAdded |-> FALSE, originalPath |-> <<>>,
                        displayName |-> trim(newDisplayName)]) @@ config

\* getSessions(projectName, 1, 0): readdir fails when the directory is missing
isProjectEmpty(files, dirExists, fault) ==
  getSessions(files, 1, 0, IF dirExists THEN fault ELSE "readdir").total = 0

Deleted(ok, files, dirExists, config) ==
  [ok |-> ok, files |-> files, dirExists |-> dirExists, config |-> config]

deleteProject(projectName, files, dirExists, config, fault) ==
  IF ~isProjectEmpty(files, dirExists, fault) THEN Deleted(FALSE, files, dirExists, config)
  ELSE Deleted(TRUE, <<>>, FALSE, deleteKey(config, projectName))

\* no getSessions call since the logs last changed
NoQuery ==
  [op |-> "none", limit |-> 0, offset |-> 0, fault |-> "none",
   result |-> SessionsResult(<<>>, FALSE, 0, 0)]

(***************************************************************************)
(* claude-cli.js: one spawnClaude call.  Commands, session ids and         *)
(* argument values are strings (sequences of characters); a null or        *)
(* undefined command or session id is <<>>, falsy like the empty string.   *)
(* Permission mode and tool settings are the defaults, which add no        *)
(* argument, and ~/.claude.json names no MCP server.                       *)
(***************************************************************************)
NoSession == <<>>
NoValue == <<>>
Newline == <<"\n">>

\* ws.readyState
OPEN == 1
CLOSED == OPEN + 2

Arg(flag, value) == [flag |-> flag, value |-> value]

\* the note spawnClaude appends for the temporary image files it saved
imageNote(saved) == <<"\n", "\n", "[", "i", "m", "a", "g", "e", "s", "]">>

\* the command is passed as it was given
buildClaudeArgsUntrimmed(command, sessionId, resume, images) ==
  LET imageArgs == [i \in 1..images |-> Arg("--image", <<"i">>)] IN
  IF resume /\ sessionId # NoSession
    THEN [args |-> <<Arg("--resume", sessionId)>> \o imageArgs, commandForStdin |-> command]
    ELSE [args |-> (IF command # <<>> THEN <<Arg("--print", command)>> ELSE <<>>) \o imageArgs,
          commandForStdin |-> <<>>]

\* commandForStdin null is <<>>
buildClaudeArgs(command, sessionId, resume, images) ==
  LET trimmedCommand == trim(command)
      imageArgs == [i \in 1..images |-> Arg("--image", <<"i">>)]
  IN IF resume /\ sessionId # NoSession
       THEN [args |-> <<Arg("--resume", sessionId)>> \o imageArgs,
             commandForStdin |-> trimmedCommand]
       ELSE [args |-> (IF trimmedCommand # <<>> THEN <<Arg("--print", trimmedCommand)>> ELSE <<>>)
                        \o imageArgs,
             commandForStdin |-> <<>>]

\* args.indexOf('--print'), 0 when there is none
printIndex(args) ==
  IF \E i \in 1..Len(args) : args[i].flag = "--print"
    THEN CHOOSE i \in 1..Len(args) :
           args[i].flag = "--print" /\ \A j \in 1..(i - 1) : args[j].flag # "--print"
    ELSE 0

\* the image note, on the command for stdin or on the argument of --print
withImageNote(built, trimmedCommand, saved) ==
  IF saved > 0 /\ trimmedCommand # <<>>
    THEN IF built.commandForStdin # <<>>
           THEN [built EXCEPT !.commandForStdin = @ \o imageNote(saved)]
           ELSE IF printIndex(built.args) # 0
             THEN [built EXCEPT !.args[printIndex(built.args)].value =
                                   trimmedCommand \o imageNote(saved)]
             ELSE built
    ELSE built

\* what follows the arguments of buildClaudeArgs
restOfArgs(resume) ==
  <<Arg("--output-format", <<"stream-json">>), Arg("--verbose", NoValue)>>
    \o (IF resume THEN <<>> ELSE <<Arg("--model", <<"sonnet">>)>>)

\* the messages sent on the websocket
Message(type, sessionId, exitCode) == [type |-> type, sessionId |-> sessionId, exitCode |-> exitCode]
NoCode == <<>>

NoReason == [kind |-> "none", code |-> <<>>]

\* the process no spawnClaude call has made yet
NoProcess ==
  [spawned |-> FALSE, command |-> <<>>, sessionId |-> NoSession, resume |-> FALSE,
   images |-> 0, saved |-> 0, args |-> <<>>, written |-> <<>>, ended |-> 0,
   promise |-> "pending", reason |-> NoReason, sent |-> <<>>,
   capturedSessionId |-> NoSession, sessionCreatedSent |-> FALSE,
   readyState |-> OPEN, stdout |-> <<>>, events |-> <<>>]

\* the writes to stdin that end spawnClaude
stdinProtocol(process, commandForStdin, trimmedCommand) ==
  IF commandForStdin # <<>>
    THEN [process EXCEPT !.written = Append(@, commandForStdin \o Newline), !.ended = @ + 1]
  ELSE IF trimmedCommand # <<>> THEN [process EXCEPT !.ended = @ + 1]
  ELSE process

\* images of the options, saved of them written as temporary files
spawnClaude(command, sessionId, resume, images, saved) ==
  LET built == withImageNote(buildClaudeArgs(command, sessionId, resume, images),
                             trim(command), saved)
  IN stdinProtocol([NoProcess EXCEPT !.spawned = TRUE, !.command = command,
                                     !.sessionId = sessionId, !.resume = resume,
                                     !.images = images, !.saved = saved,
                                     !.args = built.args \o restOfArgs(resume)],
                   built.commandForStdin, trim(command))

\* a line of stdout: blank, text (or JSON that does not parse), or a JSON
\* object with the session_id it carries, NoSession when it carries none
Line(kind, session_id) == [kind |-> kind, session_id |-> session_id]

send(process, message) == [process EXCEPT !.sent = Append(@, message)]

\* session-created for every session id that is not the one given
processLineEverySessionId(process, line) ==
  IF line.kind = "blank" THEN process
  ELSE IF line.kind = "json" THEN
    send(IF line.session_id # NoSession /\ line.session_id # process.sessionId
              /\ process.readyState = OPEN
           THEN send([process EXCEPT !.capturedSessionId = line.session_id],
                     Message("session-created", line.session_id, NoCode))
           ELSE process,
         Message("claude-response", line.session_id, NoCode))
  ELSE send(process, Message("claude-output", NoSession, NoCode))

\* the body of the loop of processStdoutData
processLine(process, line) ==
  IF line.kind = "blank" THEN process
  ELSE IF line.kind = "json" THEN
    send(IF line.session_id # NoSession /\ process.capturedSessionId = NoSession
           THEN LET captured == [process EXCEPT !.capturedSessionId = line.session_id] IN
                IF ~captured.sessionCreatedSent /\ captured.capturedSessionId # captured.sessionId
                  THEN LET marked == [captured EXCEPT !.sessionCreatedSent = TRUE] IN
                       IF marked.readyState = OPEN
                         THEN send(marked, Message("session-created", line.session_id, NoCode))
                         ELSE marked
                  ELSE captured
           ELSE process,
         Message("claude-response", line.session_id, NoCode))
  ELSE send(process, Message("claude-output", NoSession, NoCode))

RECURSIVE processStdoutData(_, _)
processStdoutData(process, lines) ==
  IF lines = <<>> THEN process
  ELSE processStdoutData(processLine(process, Head(lines)), Tail(lines))

\* resolve and reject of the promise: the first call settles it
Exited(code) == [kind |-> "exited", code |-> <<code>>]
Emitted(error) == [kind |-> error, code |-> <<>>]

resolvePromise(process) ==
  IF process.promise = "pending" THEN [process EXCEPT !.promise = "resolved"] ELSE process

rejectPromise(process, reason) ==
  IF process.promise = "pending"
    THEN [process EXCEPT !.promise = "rejected", !.reason = reason] ELSE process

\* every close rejects
onCloseRejecting(process, code) ==
  rejectPromise(send(process, Message("claude-complete", NoSession, <<code>>)), Exited(code))

\* claudeProcess.on('close')
onClose(process, code) ==
  LET completed == send(process, Message("claude-complete", NoSession, <<code>>)) IN
  IF code = 0 THEN resolvePromise(completed) ELSE rejectPromise(completed, Exited(code))

\* claudeProcess.on('error')
onError(process, error) ==
  rejectPromise(send(process, Message("claude-error", NoSession, NoCode)), Emitted(error))

(***************************************************************************)
(* validatePathChainSecurity, one turn of its loop at a time: r is what    *)
(* fs.realpath gives for currentPath at that moment.                       *)
(***************************************************************************)
\* the walk no call has started
NoWalk ==
  [status |-> "none", currentPath |-> <<>>, normalizedBase |-> <<>>, checkedPaths |-> {},
   resolvedPaths |-> {}, iterations |-> 0, error |-> <<>>, pre |-> <<>>, post |-> <<>>]

startWalk(targetPath, baseDir) ==
  [NoWalk EXCEPT !.status = "running", !.currentPath = normalize(targetPath),
                 !.normalizedBase = normalize(baseDir)]

failWalk(w, error) == [w EXCEPT !.status = "failed", !.error = error]

\* the condition of the while loop
walkGoesOn(w) ==
  /\ w.currentPath # w.normalizedBase
  /\ w.currentPath # sep
  /\ w.currentPath # parseRoot(w.currentPath)

\* the try block and its catch, currentPath already in checkedPaths
resolveStep(w, r) ==
  IF r.ok THEN
    LET normalizedReal == normalize(r.value) IN
    IF ~withinBase(normalizedReal, w.normalizedBase)
      THEN failWalk(w, catchRethrows("none", <<"SymlinkEscape">>))
    ELSE IF normalizedReal \in w.resolvedPaths
      THEN failWalk(w, catchRethrows("none", <<"CyclicSymlink">>))
    ELSE [w EXCEPT !.resolvedPaths = @ \cup {normalizedReal},
                   !.currentPath = dirname(normalizedReal)]
  ELSE IF r.code = "ENOENT" THEN [w EXCEPT !.currentPath = dirname(w.currentPath)]
  ELSE failWalk(w, catchRethrows(r.code, <<r.code>>))

\* one evaluation of the loop condition and, when it holds, one turn
walkStep(w, r) ==
  IF ~walkGoesOn(w) THEN [w EXCEPT !.status = "done"]
  ELSE LET counted == [w EXCEPT !.iterations = @ + 1] IN
    IF counted.iterations > maxIterations THEN failWalk(counted, <<"CyclicSymlink">>)
    ELSE IF counted.currentPath \in counted.checkedPaths
      THEN failWalk(counted, <<"CyclicSymlink">>)
    ELSE resolveStep([counted EXCEPT !.checkedPaths = @ \cup {counted.currentPath}], r)

(***************************************************************************)
(* claude-cli.js: activeClaudeProcesses.  The Map is the sequence of its   *)
(* entries in insertion order; an entry holds its key, the handle of a     *)
(* process (<<p>> for the p-th process spawned, <<>> when the entry has no *)
(* process field) and the captured session id (<<>> for null).             *)
(***************************************************************************)
NoHandle == <<>>

MapEntry(key, process, capturedSessionId) ==
  [key |-> key, process |-> process, capturedSessionId |-> capturedSessionId]

\* the index of the entry of a key, 0 when the Map has none
indexOfKey(map, key) ==
  LET S == {k \in 1..Len(map) : map[k].key = key} IN
  IF S = {} THEN 0 ELSE CHOOSE k \in S : TRUE

\* Map.prototype.set: the entry of a key that is there keeps its place
mapSet(map, entry) ==
  LET k == indexOfKey(map, entry.key) IN
  IF k = 0 THEN Append(map, entry) ELSE [map EXCEPT ![k] = entry]

mapDelete(map, key) == SelectSeq(map, LAMBDA e : e.key # key)

\* sessionId || Date.now().toString()
processKeyOf(sessionId, now) == IF sessionId # NoSession THEN sessionId ELSE now

\* activeClaudeProcesses.set(processKey, { process, capturedSessionId: null })
registerProcess(map, processKey, process) ==
  mapSet(map, MapEntry(processKey, process, NoSession))

\* activeClaudeProcesses.set(processKey, {...get(processKey), capturedSessionId}):
\* the spread of undefined gives an entry without a process
captureInMap(map, processKey, capturedSessionId) ==
  LET k == indexOfKey(map, processKey) IN
  mapSet(map, MapEntry(processKey, IF k = 0 THEN NoHandle ELSE map[k].process,
                       capturedSessionId))

\* the first entry whose key or captured id is the session id, 0 when none
abortTarget(map, sessionId) ==
  LET S == {k \in 1..Len(map) :
              map[k].key = sessionId \/ map[k].capturedSessionId = sessionId} IN
  IF S = {} THEN 0 ELSE CHOOSE k \in S : \A j \in S : k <= j

\* threw: value.process.kill on an entry without a process is a TypeError
\* and the Map is left as it is
abortClaudeSession(map, sessionId) ==
  LET k == abortTarget(map, sessionId) IN
  IF k = 0 THEN [found |-> FALSE, threw |-> FALSE, killed |-> NoHandle, map |-> map]
  ELSE IF map[k].process = NoHandle
    THEN [found |-> TRUE, threw |-> TRUE, killed |-> NoHandle, map |-> map]
  ELSE [found |-> TRUE, threw |-> FALSE, killed |-> map[k].process,
        map |-> mapDelete(map, map[k].key)]

(***************************************************************************)
(* State                                                                   *)
(***************************************************************************)
VARIABLES
  PROJECT_BASE_DIR,   \* process.env.PROJECT_BASE_DIR, <<>> when unset
  baseDirCache,       \* raw value -> validated base directory
  fs,                 \* the directories and links on disk
  projectConfig,      \* project-config.json
  lastCall,           \* the last operation, its arguments and its outcome
  logs,               \* the .jsonl files of the project directory, in readdir order
  lastSessions,       \* the last call that read or rewrote the logs and what it returned
  projectDirExists,   \* the directory of the project under ~/.claude/projects exists
  projectDirectoryCache,  \* project identifier -> extracted directory
  writers,            \* the config operations between their load and their save
  cursorChats,        \* the session directories of the project under ~/.cursor/chats
  cli,                \* the claude process of one spawnClaude call and what it was sent
  walk,               \* the walk of one validatePathChainSecurity call
  umask,              \* the file mode creation mask of the process
  activeClaudeProcesses,  \* the Map of claude-cli.js, its entries in insertion order
  children            \* the claude processes spawned so far, by handle

provisionVars == <<PROJECT_BASE_DIR, baseDirCache, fs, projectConfig, lastCall>>
sessionVars == <<logs, lastSessions>>
storeVars == <<projectDirExists, projectDirectoryCache, writers>>
lateVars == <<walk, umask, activeClaudeProcesses, children>>
otherVars == <<cursorChats, cli, walk, umask, activeClaudeProcesses, children>>
vars == <<PROJECT_BASE_DIR, baseDirCache, fs, projectConfig, lastCall, logs, lastSessions,
          projectDirExists, projectDirectoryCache, writers, cursorChats, cli, walk, umask, activeClaudeProcesses, children>>


\* a fresh process: nothing extracted yet, no config operation under way
FreshStore ==
  /\ projectDirExists = TRUE
  /\ projectDirectoryCache = EmptyMap
  /\ writers = EmptyMap
  /\ cursorChats = <<>>
  /\ cli = NoProcess
  /\ children = <<>>
  /\ activeClaudeProcesses = <<>>
  /\ walk = NoWalk

StoreInit ==
  /\ umask = TypicalUmask
  /\ FreshStore

\* prev: the path registered by the operation just before, when that was a
\* successful addProjectManually, else <<>>
Call(op, projectPath, displayName, fault, prev, r) ==
  [op |-> op, projectPath |-> projectPath, displayName |-> displayName, fault |-> fault,
   prev |-> prev,
   ok |-> r.ok, error |-> r.error, inputName |-> r.inputName, baseDir |-> r.baseDir,
   path |-> r.path, name |-> r.name, directoryCreated |-> r.directoryCreated,
   made |-> r.made, saved |-> r.saved,
   madeMode |-> [i \in 1..Len(r.made) |-> createdMode(mkdirOptions, umask)],
   mentions |-> IF r.error = <<"SecurityViolation">>
                  THEN securityViolationMentions(r.path, r.baseDir) ELSE {}]

\* an operation other than addProjectManually: nothing of a call is kept
Marker(op) == Call(op, <<>>, NoName, NoFault, <<>>, Outcome0(EmptyMap, EmptyMap, EmptyMap))

\* a call that has been issued and has not run yet
Pending(projectPath) ==
  Call("pending", projectPath, NoName, NoFault, <<>>, Outcome0(EmptyMap, EmptyMap, EmptyMap))

(***************************************************************************)
(* Inputs                                                                  *)
(***************************************************************************)
P_w == <<"/", "w">>
P_x == <<"/", "x">>
N_a == <<"a">>
N_b == <<"b">>

DisplayNames == {NoName, <<"D">>}

MkdirCodes == {"EACCES", "ENOTDIR", "ENOSPC", "EROFS", "EMFILE", "ENFILE", "ENAMETOOLONG", "EIO"}

Faults ==
  {NoFault}
    \cup {[op |-> "mkdir", code |-> c] : c \in MkdirCodes}
    \cup {[op |-> "access", code |-> c] : c \in {"EACCES", "EIO"}}
    \cup {[op |-> "realpath", code |-> c] : c \in {"EACCES"}}
    \cup {[op |-> "readFile", code |-> c] : c \in {"EMFILE"}}

\* one failure of each fs function, for the stateful specification
SomeFaults ==
  {NoFault, [op |-> "mkdir", code |-> "ENOSPC"], [op |-> "access", code |-> "EACCES"],
   [op |-> "realpath", code |-> "EACCES"], [op |-> "readFile", code |-> "EMFILE"]}

\* the stateful specification: one valid base directory, a relative one, a system one
EnvValues == {P_w, <<"w">>, <<".", "/", "w">>, P_etc}
ProjectNames == {N_a, N_b, DotDot}
LinkSites == {child(P_w, N_a)}
LinkTargets == {P_x, child(P_w, N_b), child(P_w, N_a)}

InitFs == (P_x :> IsDir)

(***************************************************************************)
(* Spec: calls of addProjectManually between changes of the environment    *)
(* variable and of the directory tree made by others.                      *)
(***************************************************************************)
Init ==
  /\ PROJECT_BASE_DIR = P_w
  /\ baseDirCache = EmptyMap
  /\ fs = InitFs
  /\ projectConfig = EmptyMap
  /\ lastCall = Marker("init")
  /\ logs = <<>>
  /\ lastSessions = NoQuery
  /\ StoreInit

SetEnv(v) ==
  /\ v # PROJECT_BASE_DIR
  /\ PROJECT_BASE_DIR' = v
  /\ lastCall' = Marker("setenv")
  /\ UNCHANGED <<baseDirCache, fs, projectConfig>>
  /\ UNCHANGED sessionVars
  /\ UNCHANGED storeVars
  /\ UNCHANGED otherVars

\* someone else links a project path to another place, making the
\* directories above it when they are missing
Symlink(site, target) ==
  /\ site \notin DOMAIN fs
  /\ fs' = (site :> target) @@ [q \in Range(ancestors(dirname(site))) |-> IsDir] @@ fs
  /\ lastCall' = Marker("symlink")
  /\ UNCHANGED <<PROJECT_BASE_DIR, baseDirCache, projectConfig>>
  /\ UNCHANGED sessionVars
  /\ UNCHANGED storeVars
  /\ UNCHANGED otherVars

\* someone else removes a project directory or link
Remove(site) ==
  /\ site \in DOMAIN fs
  /\ fs' = [q \in DOMAIN fs \ {site} |-> fs[q]]
  /\ lastCall' = Marker("remove")
  /\ UNCHANGED <<PROJECT_BASE_DIR, baseDirCache, projectConfig>>
  /\ UNCHANGED sessionVars
  /\ UNCHANGED storeVars
  /\ UNCHANGED otherVars

AddProject(projectPath, displayName, fault) ==
  \E r \in {addProjectManually(projectPath, displayName, PROJECT_BASE_DIR, baseDirCache,
                              fs, projectConfig, fault)} :
     /\ lastCall' = Call("add", projectPath, displayName, fault,
                          IF lastCall.op = "add" /\ lastCall.ok THEN lastCall.path ELSE <<>>, r)
     /\ baseDirCache' = r.cache
     /\ fs' = r.fsys
     /\ projectConfig' = r.config
     /\ UNCHANGED PROJECT_BASE_DIR
     /\ UNCHANGED sessionVars
     /\ UNCHANGED storeVars
     /\ UNCHANGED otherVars

Next ==
  \/ \E v \in EnvValues : SetEnv(v)
  \/ \E site \in LinkSites, target \in LinkTargets : Symlink(site, target)
  \/ \E site \in {child(P_w, n) : n \in {N_a, N_b}} : Remove(site)
  \/ \E n \in ProjectNames, d \in DisplayNames, f \in SomeFaults : AddProject(n, d, f)

Spec == Init /\ [][Next]_vars

(***************************************************************************)
(* SpecInput: one call of addProjectManually on a fresh process, for every *)
(* name over NameAlphabet up to MaxNameLen under a handful of base         *)
(* directories, and for every base directory made of a system directory    *)
(* and a suffix over SuffixAlphabet up to MaxSuffixLen.                    *)
(***************************************************************************)
NameAlphabet == {"a", ".", "/", "\\", " "}
SuffixAlphabet == {"/", ".", "w"}

AllNames == StringsUpTo(NameAlphabet, MaxNameLen)

InputRoots ==
  {<<>>, P_w, <<"/", "w", "/">>, <<"w">>, <<".", "/", "w">>, sep, HomeDir}

SystemRoots ==
  {d \o x : d \in getDangerousSystemPaths, x \in StringsUpTo(SuffixAlphabet, MaxSuffixLen)}

InitInput ==
  /\ logs = <<>>
  /\ lastSessions = NoQuery
  /\ StoreInit
  /\ baseDirCache = EmptyMap
  /\ fs = InitFs
  /\ projectConfig = EmptyMap
  /\ \/ /\ PROJECT_BASE_DIR \in InputRoots
        /\ \E n \in AllNames : lastCall = Pending(n)
     \/ /\ PROJECT_BASE_DIR \in SystemRoots
        /\ \E n \in {N_a, <<>>} : lastCall = Pending(n)

\* every failure code for the name `a`, one failure of each fs function for
\* the other names
RunPending ==
  /\ lastCall.op = "pending"
  /\ \E d \in DisplayNames, f \in (IF lastCall.projectPath = N_a THEN Faults ELSE SomeFaults) :
       AddProject(lastCall.projectPath, d, f)

NextInput == RunPending

SpecInput == InitInput /\ [][NextInput]_vars

(***************************************************************************)
(* Properties of addProjectManually                                        *)
(***************************************************************************)
IsAdd == lastCall.op = "add"

NoMutation == lastCall.made = <<>> /\ ~lastCall.saved /\ ~lastCall.directoryCreated

InputNameOf(projectPath) == basename(trim(projectPath))

\* C1 (as amended): a successful addProjectManually under the validated base
\* directory R returns resolve(R, basename(trim(N))); that path starts with
\* R + separator and its basename is the basename of the trimmed name.
C1_PathUnderRoot ==
  (IsAdd /\ lastCall.ok) =>
    /\ lastCall.baseDir = validateBaseDir(currentEnvValue(PROJECT_BASE_DIR)).value
    /\ lastCall.path = resolve(lastCall.baseDir, InputNameOf(lastCall.projectPath))
    /\ startsWith(lastCall.path, lastCall.baseDir \o sep)
    /\ basename(lastCall.path) = InputNameOf(lastCall.projectPath)

\* C1 as stated: the basename of the returned path is the basename of the
\* name as given, surrounding whitespace included.
C1_BasenameOfRawName ==
  (IsAdd /\ lastCall.ok) =>
    /\ lastCall.path = resolve(lastCall.baseDir, InputNameOf(lastCall.projectPath))
    /\ startsWith(lastCall.path, lastCall.baseDir \o sep)
    /\ basename(lastCall.path) = basename(lastCall.projectPath)

C1_Witness ==
  /\ IsAdd /\ lastCall.ok
  /\ lastCall.projectPath = <<" ", "a", "/">>
  /\ lastCall.path = child(P_w, N_a)

\* C2: when root/name exists and resolves to a real path outside the root,
\* although root/name itself passes the prefix check, addProjectManually
\* fails with SymlinkEscape and no other kind, makes no directory and
\* writes no config.
C2_SymlinkEscapeKind ==
  [][(/\ lastCall'.op = "add"
      /\ lastCall'.fault = NoFault
      /\ lastCall'.path # <<>>
      /\ withinBase(lastCall'.path, lastCall'.baseDir)
      /\ realpath(fs, lastCall'.path, NoFault).ok
      /\ ~withinBase(realpath(fs, lastCall'.path, NoFault).value, lastCall'.baseDir))
     => (/\ lastCall'.error = <<"SymlinkEscape">>
         /\ fs' = fs
         /\ projectConfig' = projectConfig)]_vars

\* C3 (as amended): a name containing `..` anywhere is rejected without any
\* mkdir or config write: with InvalidName when its final component after
\* trimming is `..` or `.`, with TraversalAttempt otherwise.
C3_DotDotRejected ==
  (IsAdd /\ includes(lastCall.projectPath, DotDot)) =>
    /\ ~lastCall.ok
    /\ lastCall.error =
         IF InputNameOf(lastCall.projectPath) \in {DotDot, Dot}
           THEN <<"InvalidName">> ELSE <<"TraversalAttempt">>
    /\ NoMutation
    /\ fs = InitFs /\ projectConfig = EmptyMap

\* C3 as stated: every name containing `..` fails with TraversalAttempt.
C3_AlwaysTraversalAttempt ==
  (IsAdd /\ includes(lastCall.projectPath, DotDot)) =>
    lastCall.error = <<"TraversalAttempt">> /\ NoMutation

C3_Witness ==
  /\ IsAdd
  /\ lastCall.projectPath = <<"a", ".", ".">>
  /\ lastCall.error = <<"TraversalAttempt">>
  /\ validateBaseDir(currentEnvValue(PROJECT_BASE_DIR)).ok

\* C4: with a relative configured root and a name that passes input
\* validation, addProjectManually fails with NotAbsolute, makes no directory
\* and writes no config; a relative root is never a key of the BaseDirCache.
C4_RelativeRoot ==
  /\ \A k \in DOMAIN baseDirCache : isAbsolute(k)
  /\ (IsAdd /\ ~isAbsolute(currentEnvValue(PROJECT_BASE_DIR))
        /\ validateProjectInput(lastCall.projectPath).ok) =>
       /\ lastCall.error = <<"NotAbsolute">>
       /\ NoMutation

\* a relative root rejected while the cache already holds a validated root
C4_Witness ==
  /\ IsAdd
  /\ PROJECT_BASE_DIR = <<"w">>
  /\ lastCall.error = <<"NotAbsolute">>
  /\ P_w \in DOMAIN baseDirCache

HasDotDotSegment(p) == \E i \in 1..Len(split(p)) : split(p)[i] = DotDot

UnderSystemDirectory(p) == \E d \in getDangerousSystemPaths : startsWith(p, d)

\* C5 (as amended): a configured root D + S, D a deny-list entry and D + S
\* free of `..` segments, with a name that passes input validation, fails
\* with SystemDirectory before any directory is made or config written.
C5_SystemRoot ==
  (IsAdd /\ UnderSystemDirectory(PROJECT_BASE_DIR)
     /\ ~HasDotDotSegment(PROJECT_BASE_DIR)
     /\ validateProjectInput(lastCall.projectPath).ok) =>
    /\ lastCall.error = <<"SystemDirectory">>
    /\ NoMutation
    /\ baseDirCache = EmptyMap

\* C5 as stated: every suffix, a `..` segment included.
C5_AnySuffix ==
  (IsAdd /\ UnderSystemDirectory(PROJECT_BASE_DIR)
     /\ validateProjectInput(lastCall.projectPath).ok) =>
    lastCall.error = <<"SystemDirectory">> /\ NoMutation

C5_Witness ==
  /\ IsAdd
  /\ PROJECT_BASE_DIR = P_etc \o <<"w", "/", ".", "w">>
  /\ lastCall.error = <<"SystemDirectory">>

\* C6: a name whose final component after trimming is empty, `.` or `..`
\* is rejected with InvalidName whatever the configured root, valid or not,
\* and the root is not validated for it.
C6_InvalidName ==
  (IsAdd /\ InputNameOf(lastCall.projectPath) \in {<<>>, Dot, DotDot}) =>
    /\ lastCall.error = <<"InvalidName">>
    /\ lastCall.baseDir = <<>>
    /\ baseDirCache = EmptyMap
    /\ NoMutation

\* InvalidName under a root that validateBaseDir rejects
C6_Witness ==
  /\ IsAdd
  /\ lastCall.error = <<"InvalidName">>
  /\ lastCall.projectPath = <<"a", "/", ".">>
  /\ ~validateBaseDir(currentEnvValue(PROJECT_BASE_DIR)).ok

\* C7: an addProjectManually that follows a successful one at once, resolves
\* to the same absolute path and meets no fs failure, fails with
\* AlreadyRegistered, makes no directory and leaves the tree and the config
\* document as the first call left them.
C7_SecondAddRejected ==
  [][(/\ lastCall.op = "add" /\ lastCall.ok
      /\ lastCall'.op = "add"
      /\ lastCall'.path = lastCall.path
      /\ lastCall'.fault = NoFault)
     => (/\ lastCall'.error = <<"AlreadyRegistered">>
         /\ lastCall'.made = <<>>
         /\ ~lastCall'.directoryCreated
         /\ fs' = fs
         /\ projectConfig' = projectConfig)]_vars

C7_Witness ==
  /\ IsAdd
  /\ lastCall.prev # <<>>
  /\ lastCall.prev = lastCall.path
  /\ lastCall.error = <<"AlreadyRegistered">>
  /\ lastCall.fault = NoFault

(***************************************************************************)
(* SpecSessions: the event logs of one project grow file by file and line  *)
(* by line, then getSessions is called.  The call leaves the logs as they  *)
(* are, so a behaviour ends with it: calls in between would reach the      *)
(* same states.                                                            *)
(***************************************************************************)
S1 == <<"s", "1">>
S2 == <<"s", "2">>
S3 == <<"s", "3">>
Cwd_a == <<"/", "w", "/", "a">>
FixBug == <<"F", "i", "x">>
Hi == <<"h", "i">>

LogLines ==
  { Entry(S1, 1, "", <<>>, "user", Hi, Cwd_a),
    Entry(S1, 2, "summary", FixBug, "", <<>>, Cwd_a),
    Entry(S2, 1, "", <<>>, "assistant", Hi, Cwd_a),
    Entry(S3, 0, "", <<>>, "user", Hi, <<>>),
    Malformed }

PageSizes == 0..MaxPage
ReadFaults == {"none", "stat"}

RECURSIVE countLines(_)
countLines(files) ==
  IF files = <<>> THEN 0 ELSE Len(Head(files).lines) + countLines(Tail(files))

InitSessions ==
  /\ PROJECT_BASE_DIR = P_w
  /\ baseDirCache = EmptyMap
  /\ fs = InitFs
  /\ projectConfig = EmptyMap
  /\ lastCall = Marker("init")
  /\ logs = <<>>
  /\ lastSessions = NoQuery
  /\ StoreInit

\* a new log file, modified after the newest one: readdir lists the files
\* oldest first, getSessions reads them newest first
CreateFile ==
  /\ Len(logs) < MaxFiles
  /\ logs' = Append(logs, [mtime |-> Len(logs) + 1, lines |-> <<>>])
  /\ lastSessions' = NoQuery
  /\ UNCHANGED provisionVars
  /\ projectDirExists' = TRUE
  /\ UNCHANGED <<projectDirectoryCache, writers>>
  /\ UNCHANGED otherVars

\* a line is appended to a log file, which becomes the newest one
AppendLine(k, line) ==
  /\ countLines(logs) < MaxEntries
  /\ logs' = touch([logs EXCEPT ![k].lines = Append(@, line)], k)
  /\ lastSessions' = NoQuery
  /\ UNCHANGED provisionVars
  /\ UNCHANGED storeVars
  /\ UNCHANGED otherVars

GetSessions(limit, offset, fault) ==
  /\ lastSessions' = [op |-> "getSessions", limit |-> limit, offset |-> offset,
                      fault |-> fault, result |-> getSessions(logs, limit, offset, fault)]
  /\ UNCHANGED logs
  /\ UNCHANGED provisionVars
  /\ UNCHANGED storeVars
  /\ UNCHANGED otherVars

NextSessions ==
  /\ lastSessions.op = "none"
  /\ \/ CreateFile
     \/ \E k \in 1..Len(logs), line \in LogLines : AppendLine(k, line)
     \/ \E limit \in PageSizes, offset \in PageSizes, fault \in ReadFaults :
          GetSessions(limit, offset, fault)

SpecSessions == InitSessions /\ [][NextSessions]_vars

(***************************************************************************)
(* What the logs hold, counted without the reader: the entries of one      *)
(* session id over all the files of the project.                           *)
(***************************************************************************)
IsQuery == lastSessions.op = "getSessions"

EntriesOf(id) ==
  {<<k, i>> \in (1..Len(logs)) \X (1..MaxEntries) :
     /\ i <= Len(logs[k].lines)
     /\ ~logs[k].lines[i].malformed
     /\ logs[k].lines[i].sessionId = id}

TrueIds == {id \in {S1, S2, S3} : EntriesOf(id) # {}}

trueTotal == Cardinality(TrueIds)

SummariesOf(id) ==
  {logs[e[1]].lines[e[2]].summary : e \in
     {x \in EntriesOf(id) : /\ logs[x[1]].lines[x[2]].type = "summary"
                            /\ logs[x[1]].lines[x[2]].summary # <<>>}}

TimestampsOf(id) ==
  {logs[e[1]].lines[e[2]].timestamp : e \in EntriesOf(id)} \ {0}

FilesOf(id) == {e[1] : e \in EntriesOf(id)}

PageLength(limit, offset, total) == Min(limit, Max(0, total - offset))

\* C8: when every file is read and the page holds every session, each id of
\* the logs has exactly one record, whose messageCount is the number of
\* entries with that id across all files, whose summary is the one of a
\* summary entry of the id when there is one, and whose lastActivity is the
\* latest timestamp among the entries of the id.
C8_MergedAcrossFiles ==
  ( /\ IsQuery
    /\ lastSessions.fault = "none"
    /\ lastSessions.offset = 0
    /\ lastSessions.limit >= trueTotal
    /\ lastSessions.result.scanned = Len(logs) ) =>
  \A id \in TrueIds :
    LET sessions == lastSessions.result.sessions
        recs == {k \in 1..Len(sessions) : sessions[k].id = id}
    IN /\ Cardinality(recs) = 1
       /\ \A k \in recs :
            /\ sessions[k].messageCount = Cardinality(EntriesOf(id))
            /\ SummariesOf(id) # {} => sessions[k].summary \in SummariesOf(id)
            /\ TimestampsOf(id) # {} =>
                 \A t \in TimestampsOf(id) : t <= sessions[k].lastActivity

\* C9: after every getSessions call, failed or not, hasMore is
\* (offset + limit < total) and the page has min(limit, max(0, total - offset))
\* records, total being the returned total.
C9_Pagination ==
  IsQuery =>
    LET r == lastSessions.result IN
    /\ r.hasMore = (lastSessions.offset + lastSessions.limit < r.total)
    /\ Len(r.sessions) = PageLength(lastSessions.limit, lastSessions.offset, r.total)

\* a successful call that returns a full page, with more sessions to come
C9_Witness ==
  /\ IsQuery
  /\ lastSessions.fault = "none"
  /\ lastSessions.limit = 1
  /\ lastSessions.result.total > lastSessions.offset + lastSessions.limit
  /\ lastSessions.result.hasMore
  /\ Len(lastSessions.result.sessions) = 1

\* C10: when the logs are read without a failure and hold fewer than
\* 2 x (limit + offset) distinct session ids, every file is scanned, the
\* returned total is the number of distinct ids, and the page has
\* min(limit, max(0, trueTotal - offset)) records.
C10_NoEarlyExitBelowThreshold ==
  ( /\ IsQuery
    /\ lastSessions.fault = "none"
    /\ trueTotal < 2 * (lastSessions.limit + lastSessions.offset) ) =>
  LET r == lastSessions.result IN
  /\ r.scanned = Len(logs)
  /\ r.total = trueTotal
  /\ Len(r.sessions) = PageLength(lastSessions.limit, lastSessions.offset, trueTotal)

\* more files than the early exit asks for, the oldest one holding a session
\* of its own, and a call below the threshold that reads them all
C10_Witness ==
  /\ IsQuery
  /\ lastSessions.fault = "none"
  /\ Len(logs) > MAX_RECENT_FILES_TO_PROCESS
  /\ trueTotal >= 1
  /\ trueTotal < 2 * (lastSessions.limit + lastSessions.offset)
  /\ \E id \in TrueIds : \A k \in FilesOf(id), j \in 1..Len(logs) : logs[k].mtime <= logs[j].mtime
  /\ lastSessions.result.scanned = Len(logs)
  /\ lastSessions.result.total = trueTotal

(***************************************************************************)
(* SpecExtract: extractProjectDirectory on a fresh process over up to      *)
(* three log files, each holding up to MaxRun entries of one cwd and one   *)
(* timestamp.                                                              *)
(***************************************************************************)
ProjectName == <<"-", "w", "-", "a">>
Cwd_b == <<"/", "w", "/", "b">>
Cwd_c == <<"/", "w", "/", "c">>

ExtractCwds == {Cwd_a, Cwd_b, Cwd_c}
RunTimestamps == {0, 1, 2}

Run(cwd, timestamp, n) == [k \in 1..n |-> Entry(S1, timestamp, "", <<>>, "user", Hi, cwd)]

RunChoices ==
  {<<>>} \cup {Run(cwd, t, n) : cwd \in ExtractCwds, t \in RunTimestamps, n \in 1..MaxRun}

\* the files of the runs that are not empty, in readdir order
RunFiles(runs) ==
  LET kept == SelectSeq(runs, LAMBDA r : r # <<>>)
  IN [k \in 1..Len(kept) |-> [mtime |-> k, lines |-> kept[k]]]

InitExtract ==
  /\ PROJECT_BASE_DIR = P_w
  /\ baseDirCache = EmptyMap
  /\ fs = InitFs
  /\ projectConfig = EmptyMap
  /\ lastCall = Marker("init")
  /\ \E r1 \in RunChoices, r2 \in RunChoices, r3 \in RunChoices :
       logs = RunFiles(<<r1, r2, r3>>)
  /\ lastSessions = NoQuery
  /\ StoreInit

Extracting(fault, r) ==
  [op |-> "extract", limit |-> 0, offset |-> 0, fault |-> fault, result |-> r]

Extract(fault) ==
  \E r \in {extractProjectDirectory(ProjectName, logs, projectDirExists,
                                    projectDirectoryCache, fault)} :
     /\ lastSessions' = Extracting(fault, r)
     /\ projectDirectoryCache' = r.cache
     /\ UNCHANGED <<logs, projectDirExists, writers>>
     /\ UNCHANGED provisionVars
     /\ UNCHANGED otherVars

NextExtract == lastSessions.op = "none" /\ Extract("none")

SpecExtract == InitExtract /\ [][NextExtract]_vars

(***************************************************************************)
(* Properties of extractProjectDirectory                                   *)
(***************************************************************************)
IsExtract == lastSessions.op = "extract"

RECURSIVE AllLines(_)
AllLines(files) == IF files = <<>> THEN <<>> ELSE Head(files).lines \o AllLines(Tail(files))

\* the entries that carry a cwd, in scan order
CwdEntries == SelectSeq(AllLines(logs), LAMBDA e : ~e.malformed /\ e.cwd # <<>>)

CwdsSeen(E) == {E[i].cwd : i \in 1..Len(E)}

CwdCount(E, c) == Cardinality({i \in 1..Len(E) : E[i].cwd = c})

MaxCwdCount(E) ==
  CHOOSE m \in {CwdCount(E, c) : c \in CwdsSeen(E)} : \A c \in CwdsSeen(E) : CwdCount(E, c) <= m

\* the first cwd in scan order whose count is m
FirstWithCount(E, m) ==
  E[CHOOSE i \in 1..Len(E) :
      /\ CwdCount(E, E[i].cwd) = m
      /\ \A j \in 1..(i - 1) : CwdCount(E, E[j].cwd) # m].cwd

\* the cwd of the entry with the greatest timestamp among those of S, of the
\* first one on ties
LatestAmong(E, S) ==
  E[CHOOSE i \in S :
      /\ \A j \in S : E[j].timestamp <= E[i].timestamp
      /\ \A j \in S : E[j].timestamp = E[i].timestamp => i <= j].cwd

Timestamped(E) == {i \in 1..Len(E) : E[i].timestamp > 0}

RecencyWins(E, c, m) == RECENT_CWD_THRESHOLD_INVERSE * CwdCount(E, c) >= m

\* what the selection policy gives when the entries of S compete for latestCwd
PolicyOver(E, S) ==
  IF Cardinality(CwdsSeen(E)) = 1 THEN E[1].cwd
  ELSE LET m == MaxCwdCount(E) IN
    IF S = {} THEN FirstWithCount(E, m)
    ELSE LET latestCwd == LatestAmong(E, S) IN
      IF RecencyWins(E, latestCwd, m) THEN latestCwd ELSE FirstWithCount(E, m)

\* C11 (as amended): with at least two distinct cwd values the call returns
\* latestCwd, the cwd of the first entry with the greatest timestamp, when
\* some entry carries a timestamp and 4 x count(latestCwd) >= maxCount, and
\* otherwise (no entry carries a timestamp, or latestCwd is too rare) the
\* first cwd in scan order whose count is maxCount; with one distinct cwd it
\* returns that cwd.
C11_RecentOrFrequent ==
  (IsExtract /\ lastSessions.fault = "none" /\ ~lastSessions.result.hit) =>
    LET E == CwdEntries IN
    E # <<>> => lastSessions.result.value = PolicyOver(E, Timestamped(E))

\* C11 as stated: a missing timestamp counts as epoch zero, so that without
\* any timestamp latestCwd is the cwd of the first entry.
C11_MissingTimestampIsEpochZero ==
  (IsExtract /\ lastSessions.fault = "none" /\ ~lastSessions.result.hit) =>
    LET E == CwdEntries IN
    E # <<>> => lastSessions.result.value = PolicyOver(E, 1..Len(E))

\* two cwd values tie at MaxRun entries, the most recent cwd has one: too
\* rare, the first of the two frequent ones is returned
C11_Witness ==
  /\ IsExtract
  /\ Len(logs) = 3
  /\ logs[1].lines = Run(Cwd_b, 1, MaxRun)
  /\ logs[2].lines = Run(Cwd_a, 0, MaxRun)
  /\ logs[3].lines = Run(Cwd_c, 2, 1)
  /\ lastSessions.result.value = Cwd_b

(***************************************************************************)
(* SpecStore: one project of the store.  Its logs grow, its directory is   *)
(* extracted and cached, the cache is cleared, the project is renamed and  *)
(* deleted, in any order.                                                  *)
(***************************************************************************)
StoreLines ==
  { Entry(S1, 1, "", <<>>, "user", Hi, Cwd_b),
    Entry(S2, 2, "", <<>>, "user", Hi, Cwd_c),
    Entry(S1, 0, "", <<>>, "user", Hi, <<>>),
    Malformed }

\* the numbers of log files a new one is added to
StoreFileCounts == {0, 1}

ExtractFaults == {"none", "access", "readdir", "read"}
DeleteFaults == {"none", "readdir", "stat"}

ManualEntry == [manuallyAdded |-> TRUE, originalPath |-> Cwd_a, displayName |-> NoName]

InitStore ==
  /\ PROJECT_BASE_DIR = P_w
  /\ baseDirCache = EmptyMap
  /\ fs = InitFs
  /\ projectConfig = (ProjectName :> ManualEntry)
  /\ lastCall = Marker("init")
  /\ logs = <<>>
  /\ lastSessions = NoQuery
  /\ StoreInit

ClearCache ==
  /\ projectDirectoryCache' = clearProjectDirectoryCache(projectDirectoryCache)
  /\ lastSessions' = NoQuery
  /\ UNCHANGED <<logs, projectDirExists, writers>>
  /\ UNCHANGED provisionVars
  /\ UNCHANGED otherVars

ConfigCall(op, arg, fault, ok) ==
  [op |-> op, limit |-> 0, offset |-> 0, fault |-> fault, result |-> [ok |-> ok, arg |-> arg]]

RenameProject(newDisplayName) ==
  /\ projectConfig' = renameProject(ProjectName, newDisplayName, projectConfig)
  /\ lastSessions' = ConfigCall("rename", newDisplayName, "none", TRUE)
  /\ UNCHANGED <<PROJECT_BASE_DIR, baseDirCache, fs, lastCall>>
  /\ UNCHANGED logs
  /\ UNCHANGED storeVars
  /\ UNCHANGED otherVars

\* the result keeps what the project held when the call was made
DeleteProject(fault) ==
  \E r \in {deleteProject(ProjectName, logs, projectDirExists, projectConfig, fault)} :
     /\ logs' = r.files
     /\ projectDirExists' = r.dirExists
     /\ projectConfig' = r.config
     /\ lastSessions' = ConfigCall("delete", [sessions |-> TrueIds # {}, files |-> logs,
                                              config |-> projectConfig], fault, r.ok)
     /\ UNCHANGED <<PROJECT_BASE_DIR, baseDirCache, fs, lastCall>>
     /\ UNCHANGED <<projectDirectoryCache, writers>>
     /\ UNCHANGED otherVars

NextStore ==
  \/ Len(logs) \in StoreFileCounts /\ CreateFile
  \/ \E k \in 1..Len(logs), line \in StoreLines : AppendLine(k, line)
  \/ \E fault \in ExtractFaults : Extract(fault)
  \/ ClearCache
  \/ \E d \in DisplayNames : RenameProject(d)
  \/ \E fault \in DeleteFaults : DeleteProject(fault)

SpecStore == InitStore /\ [][NextStore]_vars

(***************************************************************************)
(* Properties of the cache and of the failures of extractProjectDirectory  *)
(***************************************************************************)
\* the identifier with every - replaced by the path separator
DecodedName ==
  [i \in 1..Len(ProjectName) |-> IF ProjectName[i] = "-" THEN Head(sep) ELSE ProjectName[i]]

\* what a computation over the entries E of the current logs returns when no
\* read fails
FreshPath(E) ==
  IF ~projectDirExists \/ E = <<>> THEN DecodedName ELSE PolicyOver(E, Timestamped(E))

C13_HitEqualsFresh ==
  (IsExtract /\ lastSessions.result.hit) =>
    lastSessions.result.value = FreshPath(CwdEntries)

\* a save of the config document has just completed
ConfigSaved == lastSessions.op \in {"rename", "delete"} /\ lastSessions.result.ok

\* C14: a call of extractProjectDirectory that follows a completed save of
\* the config document is not served from the cache.
C14_SaveInvalidatesCache ==
  [][(ConfigSaved /\ lastSessions'.op = "extract") => ~lastSessions'.result.hit]_vars

\* C17: deleteProject succeeds exactly when the logs of the project hold no
\* session, also when the listing or a stat fails during the check; a failed
\* call leaves the log files, the directory and the config entry as they
\* were, a successful one leaves neither the directory nor the entry.
C17_DeleteOnlyWhenEmpty ==
  lastSessions.op = "delete" =>
    LET before == lastSessions.result.arg IN
    /\ lastSessions.result.ok <=> ~before.sessions
    /\ ~lastSessions.result.ok =>
         /\ logs = before.files
         /\ projectDirExists
         /\ projectConfig = before.config
    /\ lastSessions.result.ok =>
         /\ logs = <<>>
         /\ ~projectDirExists
         /\ ProjectName \notin DOMAIN projectConfig

(***************************************************************************)
(* SpecDelete: the logs of one project grow, blank lines included, then    *)
(* one session is deleted.                                                 *)
(***************************************************************************)
DeleteLines ==
  { Entry(S1, 1, "", <<>>, "user", Hi, Cwd_a),
    Entry(S2, 2, "", <<>>, "assistant", Hi, Cwd_a),
    Malformed,
    Blank }

SessionIds == {S1, S2, S3}
DeleteSessionFaults == {"none", "readdir", "read"}

\* before: the files when the call was made
DeleteSession(sessionId, fault) ==
  \E r \in {deleteSession(logs, projectDirExists, sessionId, fault)} :
     /\ logs' = IF r.ok THEN r.value ELSE logs
     /\ lastSessions' = [op |-> "deleteSession", limit |-> 0, offset |-> 0, fault |-> fault,
                         result |-> [ok |-> r.ok, error |-> r.error, sessionId |-> sessionId,
                                     before |-> logs]]
     /\ UNCHANGED provisionVars
     /\ UNCHANGED storeVars
     /\ UNCHANGED otherVars

NextDelete ==
  /\ lastSessions.op = "none"
  /\ \/ CreateFile
     \/ \E k \in 1..Len(logs), line \in DeleteLines : AppendLine(k, line)
     \/ \E sessionId \in SessionIds, fault \in DeleteSessionFaults :
          DeleteSession(sessionId, fault)

SpecDelete == InitSessions /\ [][NextDelete]_vars

(***************************************************************************)
(* Properties of deleteSession                                             *)
(***************************************************************************)
IsDeleteSession == lastSessions.op = "deleteSession"

\* the entries of a session in a sequence of lines
IsOf(line, sessionId) == ~line.malformed /\ line.sessionId = sessionId

Holds(file, sessionId) == \E i \in 1..Len(file.lines) : IsOf(file.lines[i], sessionId)

\* C15: after a successful deleteSession no log file holds an entry of the
\* session, and a getSessions that reads every file does not report it.
C15_SessionGoneFromEveryFile ==
  (IsDeleteSession /\ lastSessions.result.ok) =>
    LET s == lastSessions.result.sessionId
        sessions == getSessions(logs, Cardinality(SessionIds), 0, "none").sessions
    IN /\ \A k \in 1..Len(logs) : ~Holds(logs[k], s)
       /\ \A j \in 1..Len(sessions) : sessions[j].id # s

\* the lines of a file other than the entries of a session
OtherLines(lines, sessionId) == SelectSeq(lines, LAMBDA line : ~IsOf(line, sessionId))

\* the files after one of them, k, has been rewritten to hold kept
Rewritten(before, k, kept) == touch([before EXCEPT ![k].lines = kept], k)

\* C16 (as amended): a successful call rewrites a file that held the session
\* to its lines that are neither blank nor entries of the session, malformed
\* ones included, in their order, and leaves the other files as they were; the
\* call succeeds, when no read fails, exactly when some file holds the
\* session, and a failed call leaves every file as it was.
C16_OnlyTheSessionRemoved ==
  IsDeleteSession =>
    LET s == lastSessions.result.sessionId
        before == lastSessions.result.before
    IN /\ lastSessions.fault = "none" =>
            (lastSessions.result.ok <=> \E k \in 1..Len(before) : Holds(before[k], s))
       /\ ~lastSessions.result.ok => logs = before
       /\ lastSessions.result.ok =>
            \E k \in 1..Len(before) :
              /\ Holds(before[k], s)
              /\ logs = Rewritten(before, k,
                                  OtherLines(SelectSeq(before[k].lines, LAMBDA l : ~l.blank), s))

\* C16 as stated: every line of the rewritten file other than the entries of
\* the session is kept.
C16_AllOtherLinesKept ==
  (IsDeleteSession /\ lastSessions.result.ok) =>
    LET s == lastSessions.result.sessionId
        before == lastSessions.result.before
    IN \E k \in 1..Len(before) :
         /\ Holds(before[k], s)
         /\ logs = Rewritten(before, k, OtherLines(before[k].lines, s))

\* a file held a malformed line and an entry of the session, another file
\* did not hold the session: the malformed line is all the first keeps
C16_Witness ==
  /\ IsDeleteSession
  /\ lastSessions.result.ok
  /\ Len(logs) >= 2
  /\ \E k \in 1..Len(lastSessions.result.before) :
       /\ Holds(lastSessions.result.before[k], lastSessions.result.sessionId)
       /\ \E i \in 1..Len(lastSessions.result.before[k].lines) :
            /\ lastSessions.result.before[k].lines[i].malformed
            /\ ~lastSessions.result.before[k].lines[i].blank
  /\ logs[Len(logs)].lines = <<Malformed>>

(***************************************************************************)
(* SpecMessages: the logs of one project grow over up to two files, then   *)
(* the messages of session s1 are asked for, with or without a limit.      *)
(***************************************************************************)
MessageLines ==
  { Entry(S1, 1, "", <<>>, "user", Hi, Cwd_a),
    Entry(S1, 2, "", <<>>, "assistant", Hi, Cwd_a),
    Entry(S1, 0, "summary", FixBug, "", <<>>, Cwd_a),
    Entry(S2, 1, "", <<>>, "user", Hi, Cwd_a),
    Malformed }

MessageLimits == {NoLimit} \cup (0..MaxPage)
MessageOffsets == 0..(MaxEntries + 1)
MessageFaults == {"none", "readdir"}

GetSessionMessages(sessionId, limit, offset, fault) ==
  /\ lastSessions' = [op |-> "getSessionMessages", limit |-> limit, offset |-> offset,
                      fault |-> fault,
                      result |-> getSessionMessages(logs, projectDirExists, sessionId,
                                                    limit, offset, fault)]
  /\ UNCHANGED logs
  /\ UNCHANGED provisionVars
  /\ UNCHANGED storeVars
  /\ UNCHANGED otherVars

NextMessages ==
  /\ lastSessions.op = "none"
  /\ \/ Len(logs) \in StoreFileCounts /\ CreateFile
     \/ \E k \in 1..Len(logs), line \in MessageLines : AppendLine(k, line)
     \/ \E limit \in MessageLimits, offset \in MessageOffsets, fault \in MessageFaults :
          GetSessionMessages(S1, limit, offset, fault)

SpecMessages == InitSessions /\ [][NextMessages]_vars

(***************************************************************************)
(* Properties of getSessionMessages                                        *)
(***************************************************************************)
IsMessages == lastSessions.op = "getSessionMessages" /\ lastSessions.fault = "none"

Ascending(messages) ==
  \A i \in 1..Len(messages), j \in 1..Len(messages) :
    i < j => messages[i].timestamp <= messages[j].timestamp

Occurrences(seq, x) == Cardinality({i \in 1..Len(seq) : seq[i] = x})

\* the entries of a session in the logs, each as often as the logs hold it
SameEntries(messages, id) ==
  /\ Len(messages) = Cardinality(EntriesOf(id))
  /\ \A e \in EntriesOf(id) :
       Occurrences(messages, logs[e[1]].lines[e[2]]) =
         Cardinality({x \in EntriesOf(id) : logs[x[1]].lines[x[2]] = logs[e[1]].lines[e[2]]})

\* the whole sequence of the session, as a call without a limit returns it
WholeSequence == getSessionMessages(logs, projectDirExists, S1, NoLimit, 0, "none").messages

\* the entries at the indices [from, to) of a sequence, counted from 0
Between(seq, from, to) == [i \in 1..Max(0, to - from) |-> seq[from + i]]

\* C18: without a limit the call returns every entry of the session in
\* ascending order of timestamp; with a limit and an offset it returns the
\* entries at [max(0, total - offset - limit), total - offset) of that
\* sequence, at most limit of them and none when offset >= total, and
\* hasMore is true iff the page does not start at the oldest entry.
C18_PageFromEnd ==
  IsMessages =>
    LET r == lastSessions.result
        total == Len(WholeSequence)
        from == Max(0, total - lastSessions.offset - lastSessions.limit)
    IN IF lastSessions.limit = NoLimit
         THEN Ascending(r.messages) /\ SameEntries(r.messages, S1)
         ELSE /\ r.total = total
              /\ r.messages = Between(WholeSequence, from, total - lastSessions.offset)
              /\ Len(r.messages) <= lastSessions.limit
              /\ lastSessions.offset >= total => r.messages = <<>>
              /\ r.hasMore = (from > 0)

(***************************************************************************)
(* SpecRace: two requests change the config document at the same time,     *)
(* writer 1 the entry of /w/a and writer 2 the entry of /w/b.  A request   *)
(* loads the document, changes its copy and saves it; the other request    *)
(* may load and save in between.                                           *)
(***************************************************************************)
Writers == {1, 2}

NameOf(w) == IF w = 1 THEN N_a ELSE N_b

IdentifierOf(w) == projectIdentifierOf(child(P_w, NameOf(w)))

Writing(op, loaded, document) == [op |-> op, loaded |-> loaded, document |-> document]

\* addProjectManually up to the load in updateProjectConfig; a call that
\* throws saves nothing
BeginAdd(w) ==
  \E r \in {addProjectManually(NameOf(w), NoName, PROJECT_BASE_DIR, baseDirCache,
                              fs, projectConfig, NoFault)} :
     /\ w \notin DOMAIN writers
     /\ baseDirCache' = r.cache
     /\ fs' = r.fsys
     /\ writers' = IF r.saved THEN (w :> Writing("add", projectConfig, r.config)) @@ writers
                   ELSE writers
     /\ lastSessions' = NoQuery
     /\ UNCHANGED <<PROJECT_BASE_DIR, projectConfig, lastCall, logs,
                    projectDirExists, projectDirectoryCache>>
     /\ UNCHANGED otherVars

\* renameProject up to its save
BeginRename(w, newDisplayName) ==
  /\ w \notin DOMAIN writers
  /\ writers' = (w :> Writing("rename", projectConfig,
                              renameProject(IdentifierOf(w), newDisplayName, projectConfig)))
                  @@ writers
  /\ lastSessions' = NoQuery
  /\ UNCHANGED provisionVars
  /\ UNCHANGED <<logs, projectDirExists, projectDirectoryCache>>
  /\ UNCHANGED otherVars

\* deleteProject up to its save: the project has no log, its directory
\* goes.  The logs and the directory of the store are those of /w/a.
BeginDelete(w) ==
  \E r \in {deleteProject(IdentifierOf(w), logs, w = 1 /\ projectDirExists,
                          projectConfig, "none")} :
     /\ w \notin DOMAIN writers
     /\ r.ok
     /\ writers' = (w :> Writing("delete", projectConfig, r.config)) @@ writers
     /\ projectDirExists' = IF w = 1 THEN r.dirExists ELSE projectDirExists
     /\ lastSessions' = NoQuery
     /\ UNCHANGED provisionVars
     /\ UNCHANGED <<logs, projectDirectoryCache>>
     /\ UNCHANGED otherVars

\* before: the document on disk when the save was made
Save(w) ==
  /\ w \in DOMAIN writers
  /\ projectConfig' = saveProjectConfig(writers[w].document, projectConfig)
  /\ writers' = [x \in DOMAIN writers \ {w} |-> writers[x]]
  /\ lastSessions' = [op |-> "save", limit |-> 0, offset |-> 0, fault |-> "none",
                      result |-> [writer |-> w, request |-> writers[w].op,
                                  loaded |-> writers[w].loaded,
                                  document |-> writers[w].document,
                                  before |-> projectConfig]]
  /\ UNCHANGED <<PROJECT_BASE_DIR, baseDirCache, fs, lastCall>>
  /\ UNCHANGED <<logs, projectDirExists, projectDirectoryCache>>
  /\ UNCHANGED otherVars

NextRace ==
  \E w \in Writers :
    \/ BeginAdd(w)
    \/ \E d \in DisplayNames : BeginRename(w, d)
    \/ BeginDelete(w)
    \/ Save(w)

SpecRace == InitSessions /\ [][NextRace]_vars

(***************************************************************************)
(* Properties of the config document under concurrent requests             *)
(***************************************************************************)
IsSave == lastSessions.op = "save"

\* the entry of an identifier in a document, <<>> when it has none
EntryIn(document, identifier) ==
  IF identifier \in DOMAIN document THEN <<document[identifier]>> ELSE <<>>

\* the entry a request leaves for its own identifier
OwnEntry(request, w, document) ==
  IF request = "delete" THEN <<>>
  ELSE IF request = "add"
    THEN <<[manuallyAdded |-> TRUE, originalPath |-> child(P_w, NameOf(w)),
            displayName |-> NoName]>>
  ELSE EntryIn(document, IdentifierOf(w))

\* C19: after a save the document is the one the saving request built from
\* what it had loaded: its own entry as the request leaves it, and for the
\* identifier of the other request the entry the document had when the
\* saving request loaded it, whatever the other request has saved since.
C19_LastWriterWins ==
  IsSave =>
    LET r == lastSessions.result
        other == IdentifierOf(3 - r.writer)
    IN /\ projectConfig = r.document
       /\ DOMAIN projectConfig \subseteq {IdentifierOf(w) : w \in Writers}
       /\ EntryIn(projectConfig, other) = EntryIn(r.loaded, other)
       /\ EntryIn(projectConfig, IdentifierOf(r.writer)) =
            OwnEntry(r.request, r.writer, r.document)

\* the other request saved its update between the load and the save of the
\* request that saves last: both succeeded, the update of the other is lost
C19_Witness ==
  /\ IsSave
  /\ writers = EmptyMap
  /\ LET r == lastSessions.result
         other == IdentifierOf(3 - r.writer)
     IN /\ EntryIn(r.before, other) # EntryIn(r.loaded, other)
        /\ EntryIn(projectConfig, other) = EntryIn(r.loaded, other)

(***************************************************************************)
(* SpecParse: the logs of one project grow, then one file is parsed as it  *)
(* is and as it would be with every line written a second time after the  *)
(* last one.                                                               *)
(***************************************************************************)
ParseTwice(k) ==
  /\ lastSessions' = [op |-> "parse", limit |-> 0, offset |-> 0, fault |-> "none",
                      result |-> [file |-> k,
                                  once |-> parseJsonlSessions(logs[k].lines),
                                  twice |-> parseJsonlSessions(logs[k].lines \o logs[k].lines)]]
  /\ UNCHANGED logs
  /\ UNCHANGED provisionVars
  /\ UNCHANGED storeVars
  /\ UNCHANGED otherVars

NextParse ==
  /\ lastSessions.op = "none"
  /\ \/ CreateFile
     \/ \E k \in 1..Len(logs), line \in LogLines : AppendLine(k, line)
     \/ \E k \in 1..Len(logs) : ParseTwice(k)

SpecParse == InitSessions /\ [][NextParse]_vars

(***************************************************************************)
(* Properties of parseJsonlSessions                                        *)
(***************************************************************************)
IsParse == lastSessions.op = "parse"

RecordsOf(sessions, id) == {j \in 1..Len(sessions) : sessions[j].id = id}

IdsOf(sessions) == {sessions[j].id : j \in 1..Len(sessions)}

\* the session has an entry with a timestamp in the file
Timestamped1(lines, id) ==
  \E i \in 1..Len(lines) :
    ~lines[i].malformed /\ lines[i].sessionId = id /\ lines[i].timestamp # 0

\* C20: parsing a file whose lines are written twice gives, for every id,
\* one record as parsing the file gives one, with the same summary and cwd,
\* the same lastActivity when an entry of the id carries a timestamp, and
\* twice the messageCount; and no record of another id.
C20_ParseTwiceDoublesCounts ==
  IsParse =>
    LET once == lastSessions.result.once
        twice == lastSessions.result.twice
        lines == logs[lastSessions.result.file].lines
    IN /\ IdsOf(twice) = IdsOf(once)
       /\ Len(twice) = Len(once)
       /\ \A a \in 1..Len(once), b \in 1..Len(twice) :
            once[a].id = twice[b].id =>
              /\ twice[b].summary = once[a].summary
              /\ twice[b].cwd = once[a].cwd
              /\ twice[b].messageCount = 2 * once[a].messageCount
              /\ Timestamped1(lines, once[a].id) =>
                   twice[b].lastActivity = once[a].lastActivity

\* a file with a user message and a summary entry of one session
C20_Witness ==
  /\ IsParse
  /\ Len(lastSessions.result.once) = 1
  /\ lastSessions.result.once[1].messageCount = 2
  /\ lastSessions.result.once[1].summary = FixBug
  /\ lastSessions.result.twice[1].messageCount = 4
  /\ lastSessions.result.twice[1].summary = FixBug

(***************************************************************************)
(* SpecCursor: session directories appear under the directory of the       *)
(* project in ~/.cursor/chats, at most MaxFailing of them unreadable, then *)
(* getCursorSessions is called.                                            *)
(***************************************************************************)
DbFailures == {"missing", "open", "query", "date"}

\* what a new session directory holds: readable ones, with the creation
\* time in the metadata or only the mtime of the file, and unreadable ones
NewDirs(id) ==
  {SessionDir(id, "ok", 1, 3), SessionDir(id, "ok", 0, 2)}
    \cup {SessionDir(id, db, 1, 3) : db \in DbFailures}

CursorFaults == {"none", "access", "readdir"}

Failing(sessionDirs) == {k \in 1..Len(sessionDirs) : sessionDirs[k].db # "ok"}

AddSessionDir(dir) ==
  /\ Len(cursorChats) < MaxDirs
  /\ dir.db # "ok" => Cardinality(Failing(cursorChats)) < MaxFailing
  /\ cursorChats' = Append(cursorChats, dir)
  /\ UNCHANGED <<provisionVars, sessionVars, storeVars, cli, lateVars>>

GetCursorSessions(fault) ==
  /\ lastSessions' = [op |-> "getCursorSessions", limit |-> 0, offset |-> 0, fault |-> fault,
                      result |-> getCursorSessions(cursorChats, fault),
                      handles |-> cursorHandles(cursorChats, fault)]
  /\ UNCHANGED <<provisionVars, logs, storeVars, otherVars>>

NextCursor ==
  /\ lastSessions.op = "none"
  /\ \/ \E dir \in NewDirs(Len(cursorChats) + 1) : AddSessionDir(dir)
     \/ \E fault \in CursorFaults : GetCursorSessions(fault)

SpecCursor == InitSessions /\ [][NextCursor]_vars

(***************************************************************************)
(* Properties of getCursorSessions                                         *)
(***************************************************************************)
IsCursor == lastSessions.op = "getCursorSessions"

\* the ids of the sessions whose database can be read
Readable == {cursorChats[k].id : k \in (1..Len(cursorChats)) \ Failing(cursorChats)}

\* the creation time of a readable session: the one of the metadata, else
\* the mtime of the database file
CreatedAt(id) ==
  IF cursorChats[id].createdAt # 0 THEN cursorChats[id].createdAt ELSE cursorChats[id].mtime

Returned == {lastSessions.result[j].id : j \in 1..Len(lastSessions.result)}

\* C21: whatever directories fail, when the listing succeeds only readable
\* sessions are returned, each with its creation time, and a readable
\* session is left out only when CURSOR_SESSIONS_RETURNED sessions at least
\* as new are returned.
C21_FailuresSkipped ==
  (IsCursor /\ lastSessions.fault = "none") =>
    /\ Returned \subseteq Readable
    /\ \A j \in 1..Len(lastSessions.result) :
         lastSessions.result[j].createdAt = CreatedAt(lastSessions.result[j].id)
    /\ \A id \in Readable \ Returned :
         /\ Len(lastSessions.result) = CURSOR_SESSIONS_RETURNED
         /\ \A x \in Returned : CreatedAt(x) >= CreatedAt(id)

\* unreadable directories before, between and after readable ones, all the
\* readable ones returned
C21_Witness ==
  /\ IsCursor
  /\ lastSessions.fault = "none"
  /\ Cardinality(Failing(cursorChats)) = MaxFailing
  /\ 1 \in Failing(cursorChats)
  /\ Len(cursorChats) \notin Failing(cursorChats)
  /\ Readable # {}
  /\ Returned = Readable

\* C22: at most CURSOR_SESSIONS_RETURNED records are returned, no session
\* twice, newest first, as many as there are readable sessions up to the
\* cap, none of them older than a readable session left out; and the empty
\* list when the directory of the project is missing or cannot be listed.
C22_NewestFive ==
  IsCursor =>
    LET r == lastSessions.result IN
    IF lastSessions.fault # "none" THEN r = <<>>
    ELSE /\ Len(r) = Min(CURSOR_SESSIONS_RETURNED, Cardinality(Readable))
         /\ Cardinality(Returned) = Len(r)
         /\ \A i \in 1..Len(r), j \in 1..Len(r) : i < j => r[i].createdAt >= r[j].createdAt
         /\ \A id \in Readable \ Returned, x \in Returned : CreatedAt(x) >= CreatedAt(id)

\* more readable sessions than the cap, the oldest ones left out
C22_Witness ==
  /\ IsCursor
  /\ lastSessions.fault = "none"
  /\ Cardinality(Readable) > CURSOR_SESSIONS_RETURNED
  /\ Len(lastSessions.result) = CURSOR_SESSIONS_RETURNED
  /\ \E id \in Readable \ Returned : \E x \in Returned : CreatedAt(x) > CreatedAt(id)


(***************************************************************************)
(* Failures of creating the project directory                              *)
(***************************************************************************)
ClassifiedCodes == {"ENOSPC", "EROFS", "EMFILE", "ENFILE", "ENAMETOOLONG", "EACCES", "ENOTDIR"}

\* too-many-open-files is one failure under two codes
SameFailure(c, d) == c = d \/ {c, d} = {"EMFILE", "ENFILE"}

IsGeneric(error) == error # <<>> /\ Head(error) = "CreateFailed"

\* the call asked mkdir for the directory and mkdir failed with a classified code
MkdirFailed(call) ==
  /\ call.op = "add"
  /\ call.fault.op = "mkdir"
  /\ call.fault.code \in ClassifiedCodes
  /\ call.path # <<>>
  /\ validateProjectSecurity(call.path, call.baseDir, fs, call.fault).ok
  /\ call.path \notin DOMAIN fs

\* C23: when mkdir fails with one of the classified codes the call fails with
\* a kind that is not the generic creation failure and that is the kind of
\* exactly the codes naming the same failure (six kinds, pairwise distinct),
\* and the config document is the one before the call
C23_MkdirFailuresClassified ==
  [][MkdirFailed(lastCall')
     => (/\ ~lastCall'.ok
         /\ lastCall'.error # <<>>
         /\ ~IsGeneric(lastCall'.error)
         /\ \A c \in ClassifiedCodes :
              (mkdirError(c) = lastCall'.error) <=> SameFailure(c, lastCall'.fault.code)
         /\ Cardinality({mkdirError(c) : c \in ClassifiedCodes}) = 6
         /\ projectConfig' = projectConfig
         /\ ~lastCall'.saved)]_vars

C23_Witness ==
  /\ MkdirFailed(lastCall)
  /\ lastCall.fault.code = "ENFILE"
  /\ lastCall.error = <<"ResourceExhausted">>


(***************************************************************************)
(* The error of the boundary check                                         *)
(***************************************************************************)
\* the call resolved a path that is neither the root nor under root + separator
OutsideRoot(call) ==
  /\ call.op = "add"
  /\ call.path # <<>>
  /\ ~withinBase(normalize(call.path), normalize(call.baseDir))

C24_ViolationNamesRoot ==
  OutsideRoot(lastCall)
    => (/\ ~lastCall.ok
        /\ lastCall.error = <<"SecurityViolation">>
        /\ lastCall.baseDir \in lastCall.mentions)


(***************************************************************************)
(* Registration                                                            *)
(***************************************************************************)
\* the path with every separator replaced by `-`
Dashed(p) == [i \in 1..Len(p) |-> IF p[i] = Head(sep) THEN "-" ELSE p[i]]

Registered(call, before, after) ==
  /\ call.name = Dashed(call.path)
  /\ call.name \in DOMAIN after
  /\ after[call.name] = [manuallyAdded |-> TRUE, originalPath |-> call.path,
                         displayName |-> call.displayName]

OthersUnchanged(call, before, after) ==
  /\ DOMAIN after = DOMAIN before \cup {call.name}
  /\ \A k \in DOMAIN before \ {call.name} : after[k] = before[k]

\* C25: a successful call returns the absolute path with every separator
\* replaced by `-`; the config document then holds under that identifier
\* manuallyAdded, originalPath and the display name given (none when none
\* was given), and every other entry of the document is as it was
C25_RegistrationEntry ==
  [][(lastCall'.op = "add" /\ lastCall'.ok)
     => (/\ Registered(lastCall', projectConfig, projectConfig')
         /\ OthersUnchanged(lastCall', projectConfig, projectConfig'))]_vars

\* what the code does: the entry is as stated; the other entries are as they
\* were when the document could be read
C25_EntryOverWhatWasRead ==
  [][(lastCall'.op = "add" /\ lastCall'.ok)
     => (/\ Registered(lastCall', projectConfig, projectConfig')
         /\ lastCall'.fault.op # "readFile"
              => OthersUnchanged(lastCall', projectConfig, projectConfig')
         /\ lastCall'.fault.op = "readFile"
              => DOMAIN projectConfig' = {lastCall'.name})]_vars


C25_Witness ==
  /\ lastCall.op = "add"
  /\ lastCall.ok
  /\ lastCall.fault.op = "readFile"
  /\ lastCall.prev # <<>>
  /\ lastCall.prev # lastCall.path
  /\ lastCall.displayName # NoName
  /\ DOMAIN projectConfig = {Dashed(lastCall.path)}


(***************************************************************************)
(* SpecSpawn: one spawnClaude call, for every command of Commands, with    *)
(* and without a session id and resume, with up to MaxImages images of     *)
(* which some were saved.                                                  *)
(***************************************************************************)
Commands == {<<>>, <<" ">>, <<"q">>, <<" ", "q">>, <<"q", " ">>, <<"q", " ", "r">>}
GivenSessionIds == {NoSession, S1, S2}
ImageCounts == {<<images, saved>> : images \in 0..MaxImages, saved \in 0..MaxImages}

Spawn(command, sessionId, resume, images, saved) ==
  /\ ~cli.spawned
  /\ saved <= images
  /\ cli' = spawnClaude(command, sessionId, resume, images, saved)
  /\ UNCHANGED <<provisionVars, sessionVars, storeVars, cursorChats, lateVars>>

NextSpawn ==
  \E command \in Commands, sessionId \in GivenSessionIds, resume \in BOOLEAN, n \in ImageCounts :
     Spawn(command, sessionId, resume, n[1], n[2])

SpecSpawn == InitSessions /\ [][NextSpawn]_vars

Resumed == cli.resume /\ cli.sessionId # NoSession
HasFlag(flag) == \E i \in 1..Len(cli.args) : cli.args[i].flag = flag
Passed(flag, value) ==
  /\ \E i \in 1..Len(cli.args) : cli.args[i] = Arg(flag, value)
  /\ Cardinality({i \in 1..Len(cli.args) : cli.args[i].flag = flag}) = 1

\* the protocol for the text given: on stdin with --resume, else as --print
Protocol(text, given) ==
  IF Resumed
    THEN /\ Passed("--resume", cli.sessionId)
         /\ ~HasFlag("--print")
         /\ given => (cli.written = <<text \o Newline>> /\ cli.ended = 1)
         /\ ~given => (cli.written = <<>> /\ cli.ended = 0)
    ELSE given => (/\ Passed("--print", text)
                   /\ ~HasFlag("--resume")
                   /\ cli.written = <<>>
                   /\ cli.ended = 1)

\* C26 as stated: with resume and a session id the arguments hold --resume
\* and the id and no --print, a non-empty command is written to stdin once
\* with a newline and stdin ended once, an empty one leaves stdin alone;
\* otherwise a non-empty command is the argument of --print, there is no
\* --resume, stdin is never written and is ended once
C26_ProtocolOfTheCommand ==
  cli.spawned => Protocol(cli.command, cli.command # <<>>)

\* what is sent for a command: the command trimmed, then the note on the
\* images saved
TextOf(command, saved) ==
  trim(command) \o (IF saved > 0 THEN imageNote(saved) ELSE <<>>)

\* C26 amended: the same protocol for the command trimmed (followed by the
\* image note when images were saved), a command that is empty after
\* trimming counting as empty; without --resume such a command leaves no
\* --print and stdin neither written nor ended
C26_ProtocolOfTheTrimmedCommand ==
  cli.spawned =>
    /\ Protocol(TextOf(cli.command, cli.saved), trim(cli.command) # <<>>)
    /\ (~Resumed /\ trim(cli.command) = <<>>)
         => (~HasFlag("--print") /\ ~HasFlag("--resume") /\ cli.written = <<>> /\ cli.ended = 0)

C26_Witness ==
  /\ cli.spawned
  /\ Resumed
  /\ cli.command = <<" ", "q">>
  /\ cli.written = <<(<<"q">> \o Newline)>>
  /\ cli.ended = 1

(***************************************************************************)
(* SpecCli: one spawnClaude call and what its process and websocket do     *)
(* afterwards: chunks of stdout, up to MaxStdoutLines lines in all, the    *)
(* websocket closing, up to MaxErrors error events and one close.  The     *)
(* process may emit error and then close (a failed spawn, a failed kill).  *)
(*   stdout   the lines received, each with the readyState at that time    *)
(*   events   the error and close events emitted, in order                 *)
(***************************************************************************)
Lines ==
  {Line("blank", NoSession), Line("text", NoSession), Line("json", NoSession),
   Line("json", S1), Line("json", S2)}
Chunks == {<<l>> : l \in Lines} \cup {<<l, m>> : l \in Lines, m \in Lines}
ExitCodes == {0, 1, -2}
ErrorNames == {"ENOENT", "EPERM"}

Received(line, readyState) == [line |-> line, readyState |-> readyState]
Event(kind, name, code) == [kind |-> kind, name |-> name, code |-> code]

Closes == SelectSeq(cli.events, LAMBDA e : e.kind = "close")
Errors == SelectSeq(cli.events, LAMBDA e : e.kind = "error")

\* claudeProcess.stdout.on('data')
Stdout(chunk) ==
  /\ cli.spawned
  /\ Closes = <<>>
  /\ Len(cli.stdout) + Len(chunk) <= MaxStdoutLines
  /\ cli' = [processStdoutData(cli, chunk) EXCEPT
               !.stdout = @ \o [i \in 1..Len(chunk) |-> Received(chunk[i], cli.readyState)]]
  /\ UNCHANGED <<provisionVars, sessionVars, storeVars, cursorChats, lateVars>>

\* the client goes away
WsClose ==
  /\ cli.spawned
  /\ cli.readyState = OPEN
  /\ cli' = [cli EXCEPT !.readyState = CLOSED]
  /\ UNCHANGED <<provisionVars, sessionVars, storeVars, cursorChats, lateVars>>

ProcessError(error) ==
  /\ cli.spawned
  /\ Closes = <<>>
  /\ Len(Errors) < MaxErrors
  /\ cli' = [onError(cli, error) EXCEPT !.events = Append(@, Event("error", error, <<>>))]
  /\ UNCHANGED <<provisionVars, sessionVars, storeVars, cursorChats, lateVars>>

ProcessClose(code) ==
  /\ cli.spawned
  /\ Closes = <<>>
  /\ cli' = [onClose(cli, code) EXCEPT !.events = Append(@, Event("close", "", <<code>>))]
  /\ UNCHANGED <<provisionVars, sessionVars, storeVars, cursorChats, lateVars>>

NextCli ==
  \/ \E sessionId \in {NoSession, S1}, resume \in BOOLEAN : Spawn(<<"q">>, sessionId, resume, 0, 0)
  \/ \E chunk \in Chunks : Stdout(chunk)
  \/ WsClose
  \/ \E error \in ErrorNames : ProcessError(error)
  \/ \E code \in ExitCodes : ProcessClose(code)

SpecCli == InitSessions /\ [][NextCli]_vars

Completes == SelectSeq(cli.sent, LAMBDA m : m.type = "claude-complete")

OneCompletePerClose ==
  /\ Len(Completes) = Len(Closes)
  /\ \A i \in 1..Len(Closes) : Completes[i].exitCode = Closes[i].code

\* C27 as stated: the promise is resolved exactly when the process has closed
\* with code 0, rejected with the exit code when it has closed with another
\* code, rejected when the process has emitted an error, and each close has
\* sent one claude-complete message with its code
C27_SettledByCloseCode ==
  cli.spawned =>
    /\ cli.events # <<>> => cli.promise # "pending"
    /\ (cli.promise = "resolved") <=> (Closes # <<>> /\ Closes[1].code = <<0>>)
    /\ (Closes # <<>> /\ Closes[1].code # <<0>>)
         => (cli.promise = "rejected" /\ cli.reason = Exited(Closes[1].code[1]))
    /\ Errors # <<>> => cli.promise = "rejected"
    /\ OneCompletePerClose

\* C27 amended: the promise is pending until the first event and settled by
\* it for good: resolved by a close with code 0, rejected with the exit code
\* by a close with another code, rejected with the error by an error; each
\* close has sent one claude-complete message with its code
C27_SettledByFirstEvent ==
  cli.spawned =>
    /\ cli.events = <<>> => (cli.promise = "pending" /\ cli.reason = NoReason)
    /\ cli.events # <<>> =>
         LET first == cli.events[1] IN
         IF first.kind = "error"
           THEN cli.promise = "rejected" /\ cli.reason = Emitted(first.name)
         ELSE IF first.code = <<0>>
           THEN cli.promise = "resolved" /\ cli.reason = NoReason
         ELSE cli.promise = "rejected" /\ cli.reason = Exited(first.code[1])
    /\ OneCompletePerClose

C27_Witness ==
  /\ cli.spawned
  /\ Len(cli.events) = 2
  /\ cli.events[1].kind = "error"
  /\ cli.events[2] = Event("close", "", <<0>>)
  /\ cli.promise = "rejected"
  /\ Len(Completes) = 1

Created == SelectSeq(cli.sent, LAMBDA m : m.type = "session-created")
WithSessionId ==
  SelectSeq(cli.stdout, LAMBDA r : r.line.kind = "json" /\ r.line.session_id # NoSession)

MergeLines ==
  { Entry(S1, 1, "", <<>>, "user", Hi, Cwd_a),
    Entry(S1, 3, "", <<>>, "assistant", Hi, Cwd_a),
    Entry(S2, 2, "", <<>>, "user", Hi, Cwd_a) }

MergeFileLines == {<<l>> : l \in MergeLines} \cup {<<l, m>> : l \in MergeLines, m \in MergeLines}

MergeLogs ==
  UNION {{[k \in 1..n |-> [mtime |-> IF oldestFirst THEN k ELSE n + 1 - k, lines |-> c[k]]]
            : c \in [1..n -> MergeFileLines], oldestFirst \in BOOLEAN}
         : n \in 1..MaxMergeFiles}

InitMerge ==
  /\ PROJECT_BASE_DIR = P_w
  /\ baseDirCache = EmptyMap
  /\ fs = InitFs
  /\ projectConfig = EmptyMap
  /\ lastCall = Marker("init")
  /\ logs \in MergeLogs
  /\ lastSessions = NoQuery
  /\ StoreInit

NextMerge ==
  /\ lastSessions.op = "none"
  /\ \E limit \in PageSizes, offset \in PageSizes, fault \in ReadFaults :
       GetSessions(limit, offset, fault)

SpecMerge == InitMerge /\ [][NextMerge]_vars

\* the files the call parsed: the newest ones
Scanned ==
  {k \in 1..Len(logs) :
     Cardinality({j \in 1..Len(logs) : logs[j].mtime > logs[k].mtime})
       < lastSessions.result.scanned}

Holding(k, id) ==
  {i \in 1..Len(logs[k].lines) : ~logs[k].lines[i].malformed /\ logs[k].lines[i].sessionId = id}

\* the ids met in the files parsed
Retained == {id \in {S1, S2, S3} : \E k \in Scanned : Holding(k, id) # {}}

\* the newest file parsed that holds the id
NewestOf(id) ==
  CHOOSE k \in Scanned :
    /\ Holding(k, id) # {}
    /\ \A j \in Scanned : Holding(j, id) # {} => logs[j].mtime <= logs[k].mtime

\* the timestamp of the last entry of the id in that file that has one
ActivityOf(id) ==
  LET k == NewestOf(id)
      stamped == {i \in Holding(k, id) : logs[k].lines[i].timestamp # 0}
  IN IF stamped = {} THEN Now
     ELSE logs[k].lines[CHOOSE i \in stamped : \A j \in stamped : j <= i].timestamp

NewerThan(t) == Cardinality({id \in Retained : ActivityOf(id) > t})
AsNewAs(t) == Cardinality({id \in Retained : ActivityOf(id) >= t})

\* C29: the page holds no two records with the same id, each record is the
\* one of an id met in the files parsed, the page is in descending order of
\* lastActivity, and it is the part [offset, offset + limit) of the whole
\* list in that order: of the ids met, at most offset are newer than its
\* first record and at least offset + its length are as new as its last
C29_DistinctAndNewestFirst ==
  (IsQuery /\ lastSessions.fault = "none") =>
    LET page == lastSessions.result.sessions
        offset == lastSessions.offset
    IN /\ \A i, j \in 1..Len(page) : i # j => page[i].id # page[j].id
       /\ \A i \in 1..Len(page) :
            page[i].id \in Retained /\ page[i].lastActivity = ActivityOf(page[i].id)
       /\ \A i, j \in 1..Len(page) : i < j => page[i].lastActivity >= page[j].lastActivity
       /\ lastSessions.result.total = Cardinality(Retained)
       /\ page # <<>> =>
            /\ NewerThan(page[1].lastActivity) <= offset
            /\ AsNewAs(page[1].lastActivity) >= offset + 1
            /\ NewerThan(page[Len(page)].lastActivity) <= offset + Len(page) - 1
            /\ AsNewAs(page[Len(page)].lastActivity) >= offset + Len(page)

\* an id repeated across two files, the older file read first by readdir,
\* and the second page of one record
C29_Witness ==
  /\ IsQuery
  /\ lastSessions.fault = "none"
  /\ Len(logs) = 2
  /\ logs[1].mtime < logs[2].mtime
  /\ Holding(1, S1) # {} /\ Holding(2, S1) # {} /\ Holding(1, S2) # {}
  /\ lastSessions.offset = 1
  /\ lastSessions.limit = 1
  /\ Len(lastSessions.result.sessions) = 1
  /\ lastSessions.result.total = 2
  /\ lastSessions.result.sessions[1].id = S2


(***************************************************************************)
(* SpecSummary: parseJsonlSessions over one file of up to MaxSummaryLines  *)
(* lines; the sessions Map is recorded after every line of the read loop.  *)
(***************************************************************************)
LongContent == [i \in 1..(SummaryLimit + 1) |-> "x"]

SummaryLines ==
  { Entry(S1, 1, "summary", FixBug, "", <<>>, Cwd_a),
    Entry(S1, 1, "summary", <<>>, "user", Hi, Cwd_a),
    Entry(S1, 1, "", <<>>, "user", Hi, Cwd_a),
    Entry(S1, 1, "", <<>>, "user", NewSession, Cwd_a),
    Entry(S1, 1, "", <<>>, "user", LongContent, Cwd_a),
    Entry(S1, 1, "", <<>>, "user", CommandTag \o Hi, Cwd_a),
    [Entry(S1, 1, "", <<>>, "user", Hi, Cwd_a) EXCEPT !.isString = FALSE],
    Entry(S1, 1, "", <<>>, "user", <<>>, Cwd_a),
    Entry(S1, 1, "", <<>>, "assistant", Hi, Cwd_a),
    Entry(S2, 1, "", <<>>, "user", FixBug, Cwd_a) }

InitSummary ==
  /\ PROJECT_BASE_DIR = P_w
  /\ baseDirCache = EmptyMap
  /\ fs = InitFs
  /\ projectConfig = EmptyMap
  /\ lastCall = Marker("init")
  /\ \E n \in 1..MaxSummaryLines : \E lines \in [1..n -> SummaryLines] :
       logs = <<[mtime |-> 1, lines |-> lines]>>
  /\ lastSessions = NoQuery
  /\ StoreInit

\* steps[n + 1] is the Map after n lines
ParseFile ==
  /\ lastSessions' = [op |-> "summaries", limit |-> 0, offset |-> 0, fault |-> "none",
                      result |-> [steps |-> [n \in 1..(Len(logs[1].lines) + 1) |->
                                               parseLines(SubSeq(logs[1].lines, 1, n - 1), <<>>)],
                                  sessions |-> parseJsonlSessions(logs[1].lines)]]
  /\ UNCHANGED logs
  /\ UNCHANGED provisionVars
  /\ UNCHANGED storeVars
  /\ UNCHANGED otherVars

NextSummary == lastSessions.op = "none" /\ ParseFile

SpecSummary == InitSummary /\ [][NextSummary]_vars

IsSummaries == lastSessions.op = "summaries"

\* the summary of the session in the Map after n lines: "New Session" as
\* long as the Map has no record of it
SummaryAfterLines(n, id) ==
  LET sessions == lastSessions.result.steps[n + 1] IN
  IF \E k \in 1..Len(sessions) : sessions[k].id = id
    THEN sessions[CHOOSE k \in 1..Len(sessions) : sessions[k].id = id].summary
    ELSE NewSession

IsSummaryEntry(entry) == entry.type = "summary" /\ entry.summary # <<>>

\* a user message that is a non-empty string not starting with the command tag
IsPlainUserMessage(entry) ==
  /\ entry.role = "user"
  /\ entry.isString
  /\ entry.content # <<>>
  /\ \E i \in 1..Len(CommandTag) : i > Len(entry.content) \/ entry.content[i] # CommandTag[i]

FirstPlainUserMessage(n, id) ==
  \A m \in 1..(n - 1) :
    ~(/\ logs[1].lines[m].sessionId = id
      /\ ~IsSummaryEntry(logs[1].lines[m])
      /\ IsPlainUserMessage(logs[1].lines[m]))

Truncated(content) ==
  IF Len(content) > 50
    THEN [i \in 1..53 |-> IF i <= 50 THEN content[i] ELSE "."]
    ELSE content

\* the rules of the summary for the lines of session id, a user message
\* setting it when MaySet(n) holds of its line
SummaryRules(id, MaySet(_)) ==
  \A n \in 1..Len(logs[1].lines) :
    LET entry == logs[1].lines[n]
        before == SummaryAfterLines(n - 1, id)
        after == SummaryAfterLines(n, id)
    IN IF entry.sessionId # id THEN after = before
       ELSE IF IsSummaryEntry(entry) THEN after = entry.summary
       ELSE /\ (IsPlainUserMessage(entry) /\ MaySet(n) /\ before = NewSession)
                 => after = Truncated(entry.content)
            /\ after # before => (IsPlainUserMessage(entry) /\ MaySet(n))
            /\ before # NewSession => after = before

\* C30: the summary of a session starts as "New Session"; a summary entry
\* with a summary overwrites it; of the other entries only the first user
\* message that is a non-empty string not starting with the command tag sets
\* it, to its first 50 characters plus "..." when it is longer; once the
\* summary differs from "New Session" no user message changes it
C30_FirstUserMessageSets ==
  IsSummaries =>
    \A id \in {S1, S2} :
      /\ SummaryAfterLines(0, id) = NewSession
      /\ SummaryRules(id, LAMBDA n : FirstPlainUserMessage(n, id))

\* what the code does: such a user message sets the summary whenever the
\* summary is "New Session" at that line
C30_UserMessageSetsWhileNewSession ==
  IsSummaries =>
    \A id \in {S1, S2} :
      /\ SummaryAfterLines(0, id) = NewSession
      /\ SummaryRules(id, LAMBDA n : SummaryAfterLines(n - 1, id) = NewSession)


(***************************************************************************)
(* lastActivity and messageCount of the records of one file                *)
(***************************************************************************)
\* the well-formed entries of the id in the lines
WellFormedOf(lines, id) ==
  {i \in 1..Len(lines) : ~lines[i].malformed /\ lines[i].sessionId = id}

StampsOf(lines, id) == {lines[i].timestamp : i \in WellFormedOf(lines, id)} \ {0}

\* C31: every record parsed from a file has as lastActivity the maximum
\* timestamp over the entries of its session, in whatever order they stand in
\* the file, and as messageCount the number of well-formed entries of the
\* session; the ids of the records are those of the well-formed entries,
\* malformed lines notwithstanding
C31_LastActivityIsMaximum ==
  IsParse =>
    LET once == lastSessions.result.once
        lines == logs[lastSessions.result.file].lines
    IN /\ IdsOf(once) = {id \in {S1, S2, S3} : WellFormedOf(lines, id) # {}}
       /\ \A a \in 1..Len(once) :
            /\ once[a].messageCount = Cardinality(WellFormedOf(lines, once[a].id))
            /\ StampsOf(lines, once[a].id) # {} =>
                 /\ once[a].lastActivity \in StampsOf(lines, once[a].id)
                 /\ \A t \in StampsOf(lines, once[a].id) : t <= once[a].lastActivity

\* what the code does: lastActivity is the timestamp of the last entry of the
\* session that carries one
C31_LastActivityIsLastSeen ==
  IsParse =>
    LET once == lastSessions.result.once
        lines == logs[lastSessions.result.file].lines
    IN /\ IdsOf(once) = {id \in {S1, S2, S3} : WellFormedOf(lines, id) # {}}
       /\ \A a \in 1..Len(once) :
            /\ once[a].messageCount = Cardinality(WellFormedOf(lines, once[a].id))
            /\ LET stamped == {i \in WellFormedOf(lines, once[a].id) : lines[i].timestamp # 0} IN
               stamped # {} =>
                 once[a].lastActivity = lines[CHOOSE i \in stamped : \A j \in stamped : j <= i].timestamp


(***************************************************************************)
(* The walk up the path chain and the failures of realpath                 *)
(***************************************************************************)
\* the call came to the walk: the path is below the root
ReachedWalk(call) ==
  /\ call.op = "add"
  /\ call.path # <<>>
  /\ normalize(call.path) # normalize(call.baseDir)
  /\ withinBase(normalize(call.path), normalize(call.baseDir))

\* C32: a call for a path below the root at which nothing exists, with no
\* failure other than not-found, meets not-found in the walk and succeeds,
\* creating the directory; a call whose realpath fails with another code ends
\* with SecurityCheckFailed, and no directory is created, nothing is
\* registered and nothing saved
C32_NotFoundIsNotAnError ==
  [][/\ (/\ ReachedWalk(lastCall')
         /\ lastCall'.fault = NoFault
         /\ lastCall'.path \notin DOMAIN fs
         /\ projectIdentifierOf(lastCall'.path) \notin DOMAIN projectConfig)
        => (/\ lastCall'.ok
            /\ lastCall'.directoryCreated
            /\ lastCall'.path \in DOMAIN fs'
            /\ projectIdentifierOf(lastCall'.path) \in DOMAIN projectConfig')
     /\ (/\ ReachedWalk(lastCall')
         /\ lastCall'.fault.op = "realpath")
        => (/\ ~lastCall'.ok
            /\ lastCall'.error = <<"SecurityCheckFailed", lastCall'.fault.code>>
            /\ lastCall'.made = <<>>
            /\ ~lastCall'.saved
            /\ fs' = fs
            /\ projectConfig' = projectConfig)]_vars

\* a new directory below a root that does not exist yet either
C32_Witness ==
  /\ ReachedWalk(lastCall)
  /\ lastCall.fault = NoFault
  /\ lastCall.ok
  /\ lastCall.directoryCreated
  /\ Len(lastCall.made) = 2


(***************************************************************************)
(* SpecWalk: validatePathChainSecurity under the root /w while others      *)
(* change the directory tree: at every turn realpath may give any of       *)
(* WalkTargets, not-found or another failure.  The directories of a deep   *)
(* chain /w/d/d/.../d are real and stay: realpath gives them back.         *)
(*   pre    the paths the loop was entered with, in order                  *)
(*   post   the normalized paths realpath gave, in order                   *)
(***************************************************************************)
DeepDir(n) == P_w \o [i \in 1..(2 * n) |-> IF i % 2 = 1 THEN "/" ELSE "d"]

IsDeep(p) == startsWith(p, DeepDir(1))

WalkTargets ==
  {child(P_w, N_a), child(P_w, N_b), child(child(P_w, N_a), N_b), child(child(P_w, N_b), N_a),
   P_x, DeepDir(maxIterations), DeepDir(maxIterations + 1)}

Resolves(p) == [ok |-> TRUE, value |-> p, code |-> "none"]
Fails(code) == [ok |-> FALSE, value |-> <<>>, code |-> code]

RealpathResults(p) ==
  IF IsDeep(p) THEN {Resolves(p)}
  ELSE {Resolves(t) : t \in WalkTargets} \cup {Fails("ENOENT"), Fails("EACCES")}

StartWalk(targetPath) ==
  /\ walk.status = "none"
  /\ walk' = startWalk(targetPath, P_w)
  /\ UNCHANGED <<provisionVars, sessionVars, storeVars, cursorChats, cli>>
  /\ UNCHANGED <<umask, activeClaudeProcesses, children>>

WalkStep(r) ==
  /\ walk.status = "running"
  /\ LET entered == walkGoesOn(walk)
         called == /\ entered
                   /\ Len(walk.pre) < maxIterations
                   /\ \A i \in 1..Len(walk.pre) : walk.pre[i] # walk.currentPath
     IN walk' = [walkStep(walk, r) EXCEPT
                   !.pre = IF entered THEN Append(@, walk.currentPath) ELSE @,
                   !.post = IF called /\ r.ok THEN Append(@, normalize(r.value)) ELSE @]
  /\ UNCHANGED <<provisionVars, sessionVars, storeVars, cursorChats, cli>>
  /\ UNCHANGED <<umask, activeClaudeProcesses, children>>

NextWalk ==
  \/ \E targetPath \in {child(P_w, N_a), child(P_w, N_b)} : StartWalk(targetPath)
  \/ \E r \in RealpathResults(walk.currentPath) : WalkStep(r)

SpecWalk == InitSessions /\ [][NextWalk]_vars

HasDuplicate(seq) == \E i, j \in 1..Len(seq) : i < j /\ seq[i] = seq[j]

\* the loop body runs at most maxIterations times: realpath is asked at most
\* that often, and an entry beyond fails at once
AtMostMaxIterations ==
  /\ Len(walk.post) <= maxIterations
  /\ Len(walk.pre) <= maxIterations + 1
  /\ Len(walk.pre) > maxIterations => walk.status = "failed"

\* C33: the walk runs at most 20 turns, and when a path it is entered with
\* or a path realpath gave comes a second time, or a turn beyond the 20th is
\* entered, it has failed with CyclicSymlink
C33_CyclicSymlinkOnRevisit ==
  /\ AtMostMaxIterations
  /\ (HasDuplicate(walk.pre) \/ HasDuplicate(walk.post) \/ Len(walk.pre) > maxIterations)
       => (walk.status = "failed" /\ walk.error = <<"CyclicSymlink">>)

\* what the code does: a resolved path that comes a second time fails with
\* SecurityCheckFailed around the CyclicSymlink message
C33_ResolvedRevisitIsWrapped ==
  /\ AtMostMaxIterations
  /\ (HasDuplicate(walk.pre) \/ Len(walk.pre) > maxIterations)
       => (walk.status = "failed" /\ walk.error = <<"CyclicSymlink">>)
  /\ HasDuplicate(walk.post)
       => (walk.status = "failed" /\ walk.error = <<"SecurityCheckFailed", "CyclicSymlink">>)


(***************************************************************************)
(* SpecScan: getSessions over up to MaxScanFiles log files of one line     *)
(* each, listed by readdir in either order of modification time, so that   *)
(* the early exit leaves files unread.  Three session ids; two of the      *)
(* lines share one timestamp.                                              *)
(***************************************************************************)
MaxScanFiles == 4

ScanLines ==
  { Entry(S1, 1, "", <<>>, "user", Hi, Cwd_a),
    Entry(S2, 2, "", <<>>, "user", Hi, Cwd_a),
    Entry(S3, 3, "", <<>>, "user", Hi, Cwd_a),
    Entry(S3, 1, "", <<>>, "user", Hi, Cwd_a) }

ScanLogs ==
  UNION {{[k \in 1..n |-> [mtime |-> IF oldestFirst THEN k ELSE n + 1 - k, lines |-> <<c[k]>>]]
            : c \in [1..n -> ScanLines], oldestFirst \in BOOLEAN}
         : n \in 1..MaxScanFiles}

InitScan ==
  /\ PROJECT_BASE_DIR = P_w
  /\ baseDirCache = EmptyMap
  /\ fs = InitFs
  /\ projectConfig = EmptyMap
  /\ lastCall = Marker("init")
  /\ logs \in ScanLogs
  /\ lastSessions = NoQuery
  /\ StoreInit

NextScan ==
  /\ lastSessions.op = "none"
  /\ \E limit \in PageSizes, offset \in PageSizes, fault \in ReadFaults :
       GetSessions(limit, offset, fault)

SpecScan == InitScan /\ [][NextScan]_vars

\* the loop over the files sorted by mtime without the break
RECURSIVE scanAllFiles(_, _, _)
scanAllFiles(filesWithStats, k, allSessions) ==
  IF k > Len(filesWithStats) THEN allSessions
  ELSE scanAllFiles(filesWithStats, k + 1,
                    mergeSessions(allSessions, parseJsonlSessions(filesWithStats[k].lines)))

\* the page of an exhaustive scan
exhaustivePage(files, limit, offset) ==
  slice(byLastActivity(scanAllFiles(byMtime(files), 1, <<>>)), offset, offset + limit)

\* C34: the page returned has the length and the ids of the page of an
\* exhaustive scan, and where the two differ at a position the two records
\* there have the same lastActivity
C34_PageOfExhaustiveScan ==
  (IsQuery /\ lastSessions.fault = "none") =>
    LET page == lastSessions.result.sessions
        full == exhaustivePage(logs, lastSessions.limit, lastSessions.offset)
    IN /\ Len(page) = Len(full)
       /\ IdsOf(page) = IdsOf(full)
       /\ \A i \in 1..Len(page) :
            page[i] # full[i] => page[i].lastActivity = full[i].lastActivity

\* what the code gives: the page has the length of the page of an exhaustive
\* scan, and it is that page when no file was left unread
C34_LengthOfExhaustiveScan ==
  (IsQuery /\ lastSessions.fault = "none") =>
    LET page == lastSessions.result.sessions
        full == exhaustivePage(logs, lastSessions.limit, lastSessions.offset)
    IN /\ Len(page) = Len(full)
       /\ lastSessions.result.scanned = Len(logs) => page = full


(***************************************************************************)
(* SpecRemoval: deleteProject of /w/a while a writer appends to its logs.  *)
(* deleteProject awaits isProjectEmpty, then awaits fs.rm: the writer may  *)
(* run between the two.  writers[1] is the deleteProject call that has     *)
(* found the project empty and has not removed it yet.                     *)
(***************************************************************************)
Removing(checked) ==
  [op |-> "rm", loaded |-> projectConfig, document |-> projectConfig, checked |-> checked]

\* deleteProject up to the result of isProjectEmpty; a call that finds a
\* session throws and changes nothing
CheckEmpty ==
  /\ 1 \notin DOMAIN writers
  /\ isProjectEmpty(logs, projectDirExists, "none")
  /\ writers' = (1 :> Removing(logs)) @@ writers
  /\ lastSessions' = NoQuery
  /\ UNCHANGED provisionVars
  /\ UNCHANGED <<logs, projectDirExists, projectDirectoryCache>>
  /\ UNCHANGED otherVars

\* deleteProject from fs.rm on: the tree goes with what it holds by now,
\* then the entry of the project
RemoveTree ==
  /\ 1 \in DOMAIN writers
  /\ logs' = <<>>
  /\ projectDirExists' = FALSE
  /\ projectConfig' = deleteKey(projectConfig, ProjectName)
  /\ writers' = [x \in DOMAIN writers \ {1} |-> writers[x]]
  /\ lastSessions' = [op |-> "rm", limit |-> 0, offset |-> 0, fault |-> "none",
                      result |-> [checked |-> writers[1].checked, held |-> logs]]
  /\ UNCHANGED <<PROJECT_BASE_DIR, baseDirCache, fs, lastCall>>
  /\ UNCHANGED projectDirectoryCache
  /\ UNCHANGED otherVars

NextRemoval ==
  /\ lastSessions.op = "none"
  /\ \/ CreateFile
     \/ \E k \in 1..Len(logs), line \in LogLines : AppendLine(k, line)
     \/ CheckEmpty
     \/ RemoveTree

SpecRemoval == InitSessions /\ [][NextRemoval]_vars

\* the session ids the entries of the files carry
HeldIds(files) ==
  UNION {{files[k].lines[i].sessionId :
            i \in {j \in 1..Len(files[k].lines) : ~files[k].lines[j].malformed}}
         : k \in 1..Len(files)} \ {<<>>}

IsRemoval == lastSessions.op = "rm"

\* C35: the tree deleteProject removes holds no session at the moment of
\* the removal
C35_NoSessionAtRemoval == IsRemoval => HeldIds(lastSessions.result.held) = {}

\* what the code gives: the tree held no session when isProjectEmpty read it
C35_NoSessionWhenChecked == IsRemoval => HeldIds(lastSessions.result.checked) = {}

(***************************************************************************)
(* SpecMode: one call of addProjectManually under /w, which is not there,  *)
(* on a fresh process started under any of Umasks.  The directories made   *)
(* are /w and those below it down to the project path.                     *)
(***************************************************************************)
\* 0o000, 0o002, 0o022, 0o027, 0o077
Umasks == {0, 2, TypicalUmask, 23, 63}

InitMode ==
  /\ umask \in Umasks
  /\ FreshStore
  /\ logs = <<>>
  /\ lastSessions = NoQuery
  /\ baseDirCache = EmptyMap
  /\ fs = InitFs
  /\ projectConfig = EmptyMap
  /\ PROJECT_BASE_DIR = P_w
  /\ \E n \in AllNames : lastCall = Pending(n)

NextMode == RunPending

SpecMode == InitMode /\ [][NextMode]_vars

\* no bit of the group and none of the others
OwnerOnly(mode) == mode % 64 = 0

MadeDirectories == lastCall.op = "add" /\ lastCall.directoryCreated

\* C36: every directory a call of addProjectManually made has a mode that
\* grants access to the owner only
C36_MadeForOwnerOnly ==
  MadeDirectories => \A i \in 1..Len(lastCall.madeMode) : OwnerOnly(lastCall.madeMode[i])

\* what the code gives: every directory made has all the bits the umask
\* leaves, and is for the owner only exactly when the umask takes every
\* bit of the group and of the others
C36_MadeAsUmaskLeaves ==
  MadeDirectories =>
    /\ Len(lastCall.madeMode) = Len(lastCall.made)
    /\ \A i \in 1..Len(lastCall.madeMode) :
         /\ lastCall.madeMode[i] = andNot(DefaultDirMode, umask, ModeBits)
         /\ OwnerOnly(lastCall.madeMode[i]) <=> umask % 64 = 63

(***************************************************************************)
(* getProjects, the part that lists the manually configured projects,      *)
(* and renameProject of such a project (under SpecRace)                    *)
(***************************************************************************)
\* the projects listed for the entries of the config that have no directory
\* in the primary store: name and path.  Without an originalPath the path
\* is the one extractProjectDirectory gives for a directory that is missing.
manualProjects(config, existingProjects) ==
  {[name |-> projectName,
    path |-> IF config[projectName].originalPath # <<>>
               THEN config[projectName].originalPath
               ELSE extractedPathOf(projectName, <<>>, FALSE, "none")]
     : projectName \in {n \in DOMAIN config \ existingProjects : config[n].manuallyAdded}}

\* a rename of the project of the saving request, which was registered by
\* hand when the request loaded the config
RenamedManual ==
  /\ IsSave
  /\ lastSessions.result.request = "rename"
  /\ LET id == IdentifierOf(lastSessions.result.writer) IN
       /\ id \in DOMAIN lastSessions.result.loaded
       /\ lastSessions.result.loaded[id].manuallyAdded

\* C37: the rename of a manually added project leaves its manuallyAdded flag
\* and its originalPath as they were, and the project, which has no
\* directory in the primary store, is listed after the rename with the path
\* it was listed with before
C37_RenameKeepsRegistration ==
  RenamedManual =>
    LET r == lastSessions.result
        id == IdentifierOf(r.writer)
        listedBefore == {p \in manualProjects(r.loaded, {}) : p.name = id}
        listedAfter == {p \in manualProjects(r.document, {}) : p.name = id}
    IN /\ id \in DOMAIN r.document
       /\ r.document[id].manuallyAdded
       /\ r.document[id].originalPath = r.loaded[id].originalPath
       /\ listedAfter = listedBefore
       /\ listedAfter # {}

\* what the code gives: the entry is replaced by one that holds the trimmed
\* name only, or removed when the name is empty; the project is no longer
\* listed, and the other entries are as they were loaded
C37_RenameReplacesEntry ==
  RenamedManual =>
    LET r == lastSessions.result
        id == IdentifierOf(r.writer)
    IN /\ id \in DOMAIN r.document => ~r.document[id].manuallyAdded
       /\ id \in DOMAIN r.document => r.document[id].originalPath = <<>>
       /\ {p \in manualProjects(r.document, {}) : p.name = id} = {}
       /\ {p \in manualProjects(r.loaded, {}) : p.name = id} # {}
       /\ \A other \in DOMAIN r.loaded \ {id} :
            other \in DOMAIN r.document /\ r.document[other] = r.loaded[other]

(***************************************************************************)
(* SpecActive: up to MaxChildren spawnClaude calls, for the session s1 or  *)
(* for a new session, and what happens to their processes: a stdout line   *)
(* with a session id, the close or the error event, abortClaudeSession.    *)
(* A process that was sent SIGTERM still runs until it closes and may      *)
(* still write.  Two calls without a session id made in the same           *)
(* millisecond get the same key.                                           *)
(***************************************************************************)
MaxChildren == 2

T1 == <<"1", "7">>
T2 == <<"1", "8">>

Child(key, state, capturedSessionId) ==
  [key |-> key, state |-> state, capturedSessionId |-> capturedSessionId]

Alive == {p \in 1..Len(children) : children[p].state \in {"running", "killed"}}

SpawnChild(sessionId, now) ==
  /\ Len(children) < MaxChildren
  /\ children' = Append(children, Child(processKeyOf(sessionId, now), "running", NoSession))
  /\ activeClaudeProcesses' =
       registerProcess(activeClaudeProcesses, processKeyOf(sessionId, now),
                       <<Len(children) + 1>>)
  /\ UNCHANGED <<provisionVars, sessionVars, storeVars, cursorChats, cli, walk, umask>>

\* the first line with a session_id that a process writes
ChildStdout(p, session_id) ==
  /\ p \in Alive
  /\ children[p].capturedSessionId = NoSession
  /\ children' = [children EXCEPT ![p].capturedSessionId = session_id]
  /\ activeClaudeProcesses' = captureInMap(activeClaudeProcesses, children[p].key, session_id)
  /\ UNCHANGED <<provisionVars, sessionVars, storeVars, cursorChats, cli, walk, umask>>

\* the close or the error event of a process
ChildEnds(p, event) ==
  /\ p \in Alive
  /\ children' = [children EXCEPT ![p].state = event]
  /\ activeClaudeProcesses' = mapDelete(activeClaudeProcesses, children[p].key)
  /\ UNCHANGED <<provisionVars, sessionVars, storeVars, cursorChats, cli, walk, umask>>

\* a call that finds no entry, or that throws, changes nothing
Abort(sessionId) ==
  \E r \in {abortClaudeSession(activeClaudeProcesses, sessionId)} :
     /\ r.found /\ ~r.threw
     /\ children' = [children EXCEPT ![r.killed[1]].state =
                       IF @ = "running" THEN "killed" ELSE @]
     /\ activeClaudeProcesses' = r.map
     /\ UNCHANGED <<provisionVars, sessionVars, storeVars, cursorChats, cli, walk, umask>>

NextActive ==
  \/ \E sessionId \in {S1, NoSession}, now \in {T1, T2} : SpawnChild(sessionId, now)
  \/ \E p \in 1..Len(children), session_id \in {S1, S2} : ChildStdout(p, session_id)
  \/ \E p \in 1..Len(children), event \in {"closed", "errored"} : ChildEnds(p, event)
  \/ \E sessionId \in {S1, S2, T1, T2} : Abort(sessionId)

SpecActive == InitSessions /\ [][NextActive]_vars

Running == {p \in 1..Len(children) : children[p].state = "running"}

\* the names a running process can be aborted by
NamesOf(p) == {children[p].key, children[p].capturedSessionId} \ {NoSession}

\* C38: every running process has an entry that holds its handle, every
\* entry holds the handle of a running process, abortClaudeSession with the
\* key or the captured id of a running process signals a running process of
\* that name, and abortClaudeSession throws for no id
C38_TracksExactlyTheRunning ==
  /\ \A p \in Running :
       \E k \in 1..Len(activeClaudeProcesses) : activeClaudeProcesses[k].process = <<p>>
  /\ \A k \in 1..Len(activeClaudeProcesses) :
       /\ activeClaudeProcesses[k].process # NoHandle
       /\ activeClaudeProcesses[k].process[1] \in Running
  /\ \A p \in Running : \A id \in NamesOf(p) :
       \E q \in Running :
         /\ id \in NamesOf(q)
         /\ abortClaudeSession(activeClaudeProcesses, id).killed = <<q>>
  /\ \A id \in {S1, S2, T1, T2} : ~abortClaudeSession(activeClaudeProcesses, id).threw

\* what the code gives: the keys of the entries are distinct, and an entry
\* that holds a handle holds the one of a running process spawned under
\* the key of the entry
C38_HandlesAreOfRunning ==
  /\ \A j, k \in 1..Len(activeClaudeProcesses) :
       j # k => activeClaudeProcesses[j].key # activeClaudeProcesses[k].key
  /\ \A k \in 1..Len(activeClaudeProcesses) :
       activeClaudeProcesses[k].process # NoHandle =>
         /\ activeClaudeProcesses[k].process[1] \in Running
         /\ children[activeClaudeProcesses[k].process[1]].key = activeClaudeProcesses[k].key

(***************************************************************************)
(* buildClaudeArgs with a permission mode and the tool settings.  A mode   *)
(* and a tool name are sequences of one string, <<>> when undefined.       *)
(***************************************************************************)
DefaultMode == <<"default">>
PlanMode == <<"plan">>

planModeTools == <<<<"Read">>, <<"Task">>, <<"exit_plan_mode">>, <<"TodoRead">>, <<"TodoWrite">>>>

\* Array.prototype.includes
arrayIncludes(seq, x) == \E i \in 1..Len(seq) : seq[i] = x

\* every plan mode tool is pushed, listed already or not
RECURSIVE addPlanToolsAlways(_, _)
addPlanToolsAlways(allowedTools, k) ==
  IF k > Len(planModeTools) THEN allowedTools
  ELSE addPlanToolsAlways(Append(allowedTools, planModeTools[k]), k + 1)

\* the loop over planModeTools from the k-th on
RECURSIVE addPlanTools(_, _)
addPlanTools(allowedTools, k) ==
  IF k > Len(planModeTools) THEN allowedTools
  ELSE addPlanTools(IF arrayIncludes(allowedTools, planModeTools[k]) THEN allowedTools
                    ELSE Append(allowedTools, planModeTools[k]),
                    k + 1)

permissionModeArgs(permissionMode) ==
  IF permissionMode # <<>> /\ permissionMode # DefaultMode
    THEN <<Arg("--permission-mode", permissionMode)>> ELSE <<>>

toolArgs(permissionMode, settings) ==
  IF settings.skipPermissions /\ permissionMode # PlanMode
    THEN <<Arg("--dangerously-skip-permissions", NoValue)>>
  ELSE LET allowedTools == IF permissionMode = PlanMode
                             THEN addPlanTools(settings.allowedTools, 1)
                             ELSE settings.allowedTools
       IN [i \in 1..Len(allowedTools) |-> Arg("--allowedTools", allowedTools[i])]
            \o [i \in 1..Len(settings.disallowedTools) |->
                  Arg("--disallowedTools", settings.disallowedTools[i])]

\* the whole argument list of buildClaudeArgs
buildClaudeArgsWithSettings(options, settings) ==
  buildClaudeArgs(options.command, options.sessionId, options.resume, options.images).args
    \o permissionModeArgs(options.permissionMode)
    \o toolArgs(options.permissionMode, settings)

(***************************************************************************)
(* SpecArgs: one call of buildClaudeArgs, for every command, session id,   *)
(* resume flag and permission mode, and for the settings with up to        *)
(* MaxTools allowed tools, listed twice or not.                            *)
(***************************************************************************)
MaxTools == 2

PermissionModes == {<<>>, DefaultMode, PlanMode, <<"acceptEdits">>}

ToolNames == {<<"Read">>, <<"Task">>, <<"Write">>}

ToolLists == UNION {[1..n -> ToolNames] : n \in 0..MaxTools}

BuildArgs(options, settings) ==
  /\ lastSessions' = [op |-> "buildClaudeArgs", limit |-> 0, offset |-> 0, fault |-> "none",
                      result |-> [options |-> options, settings |-> settings,
                                  args |-> buildClaudeArgsWithSettings(options, settings)]]
  /\ UNCHANGED logs
  /\ UNCHANGED provisionVars
  /\ UNCHANGED storeVars
  /\ UNCHANGED otherVars

NextArgs ==
  /\ lastSessions.op = "none"
  /\ \E command \in {<<>>, <<"q">>}, sessionId \in {NoSession, S1}, resume \in BOOLEAN,
        permissionMode \in PermissionModes, skipPermissions \in BOOLEAN,
        allowedTools \in ToolLists, disallowedTools \in {<<>>, <<<<"Bash">>>>} :
       BuildArgs([command |-> command, sessionId |-> sessionId, resume |-> resume,
                  images |-> 0, permissionMode |-> permissionMode],
                 [skipPermissions |-> skipPermissions, allowedTools |-> allowedTools,
                  disallowedTools |-> disallowedTools])

SpecArgs == InitSessions /\ [][NextArgs]_vars

IsBuilt == lastSessions.op = "buildClaudeArgs"

BuiltFlag(flag) ==
  \E i \in 1..Len(lastSessions.result.args) : lastSessions.result.args[i].flag = flag

\* how often a tool is passed as an allowed tool
TimesAllowed(tool) ==
  Cardinality({i \in 1..Len(lastSessions.result.args) :
                 /\ lastSessions.result.args[i].flag = "--allowedTools"
                 /\ lastSessions.result.args[i].value = tool})

TimesListed(tool) ==
  Cardinality({i \in 1..Len(lastSessions.result.settings.allowedTools) :
                 lastSessions.result.settings.allowedTools[i] = tool})

\* C39 as stated: in plan mode there is no --dangerously-skip-permissions
\* and each of the five plan mode tools is an allowed tool exactly once;
\* --resume and --print are never both in the list
C39_PlanToolsExactlyOnce ==
  IsBuilt =>
    /\ lastSessions.result.options.permissionMode = PlanMode =>
         /\ ~BuiltFlag("--dangerously-skip-permissions")
         /\ \A k \in 1..Len(planModeTools) : TimesAllowed(planModeTools[k]) = 1
    /\ ~(BuiltFlag("--resume") /\ BuiltFlag("--print"))

\* C39: in plan mode there is no --dangerously-skip-permissions and each of
\* the five plan mode tools is an allowed tool as often as the settings list
\* it, once when they do not; --resume and --print are never both in the
\* list
C39_PlanToolsOnceOrAsListed ==
  IsBuilt =>
    /\ lastSessions.result.options.permissionMode = PlanMode =>
         /\ ~BuiltFlag("--dangerously-skip-permissions")
         /\ \A k \in 1..Len(planModeTools) :
              TimesAllowed(planModeTools[k]) = Max(1, TimesListed(planModeTools[k]))
    /\ ~(BuiltFlag("--resume") /\ BuiltFlag("--print"))

\* plan mode with skipPermissions set, Read listed twice, a session resumed
\* with a command
C39_Witness ==
  /\ IsBuilt
  /\ lastSessions.result.options.permissionMode = PlanMode
  /\ lastSessions.result.settings.skipPermissions
  /\ lastSessions.result.settings.allowedTools = <<<<"Read">>, <<"Read">>>>
  /\ lastSessions.result.options.resume
  /\ lastSessions.result.options.sessionId = S1
  /\ lastSessions.result.options.command = <<"q">>
  /\ TimesAllowed(<<"Read">>) = 2
  /\ TimesAllowed(<<"Task">>) = 1
  /\ BuiltFlag("--resume")

(***************************************************************************)
(* The database handles of getCursorSessions (under SpecCursor)            *)
(***************************************************************************)
\* C40: when the call returns no database handle is open, and no two were
\* open at one time
C40_EveryHandleClosed ==
  IsCursor =>
    /\ lastSessions.handles.open = {}
    /\ lastSessions.handles.peak <= 1

\* the directories whose database opens and then fails a query
QueryFailed == {cursorChats[k].id : k \in {j \in 1..Len(cursorChats) : cursorChats[j].db = "query"}}

\* what the code gives: the handles left open are those of the databases
\* that failed a query, and one more than those was open at most
C40_FailedQueriesLeak ==
  IsCursor =>
    /\ lastSessions.handles.open = (IF lastSessions.fault = "none" THEN QueryFailed ELSE {})
    /\ lastSessions.handles.peak <= Cardinality(lastSessions.handles.open) + 1

====
